---- MODULE Spec2Model ----
(***************************************************************************)
(* Key-lifecycle and rotation engine of encrypted-file-vault.              *)
(*                                                                         *)
(* Three state machines share this module:                                 *)
(*   Spec        the vault workflows of src/db/vault_db_ops.rs (add_file,  *)
(*               rotate_key_in_vault, store_key_blob) over the vault       *)
(*               database of src/db/vault_db_conn.rs, the index database   *)
(*               and the file system, with error returns and crashes;      *)
(*   SpecStream  the three-stage pipeline of rotate_key_streaming in       *)
(*               src/crypto/rotate.rs;                                     *)
(*   SpecCrypto  the in-memory and file-level crypto functions (rotate_key, *)
(*               upgrade_from_legacy, ensure_v3, encrypt/decrypt) applied  *)
(*               to a container and a credential.                          *)
(***************************************************************************)
EXTENDS Integers, Sequences, FiniteSets, TLC

VARIABLES
    disk,          \* path -> container bytes | Absent | Partial
    key_history,   \* committed rows of table key_history
    keys,          \* committed rows of table keys
    files,         \* rows of table files (index database)
    schema,        \* "legacy": keys table only; "current": after open_vault_db
    now,           \* the clock read by datetime('now')
    nextKey,       \* the next output of the CSPRNG
    pc,            \* per process: position inside the running call
    loc,           \* per process: the locals of the running call
    tx,            \* per process: uncommitted view of an open transaction
    last,          \* per process: outcome of the last finished call
    pre,           \* per process: the stores as they were when the call began
    track,         \* per file_id: what has been done to it so far
    s_in,          \* pipeline: the input of the run (chunks, failure points)
    s_pc,          \* pipeline: position of the caller, decrypt and encrypt thread
    s_pipe,        \* pipeline: the two pipes (endpoints alive, chunk in hand-off)
    s_out,         \* pipeline: what the encrypt stage has written to the output
    s_seen,        \* pipeline: chunks emitted by decrypt / consumed by encrypt
    c_in,          \* crypto call: the arguments (container, credential, next key)
    c_op,          \* crypto call: the function that was applied
    c_res,         \* crypto call: what it returned
    c_fs           \* crypto call: the files at the input and the output path

vaultVars == <<disk, key_history, keys, files, schema, now, nextKey,
               pc, loc, tx, last, pre, track>>
streamVars == <<s_in, s_pc, s_pipe, s_out, s_seen>>
cryptoVars == <<c_in, c_op, c_res, c_fs>>
vars == <<disk, key_history, keys, files, schema, now, nextKey,
          pc, loc, tx, last, pre, track, s_in, s_pc, s_pipe, s_out, s_seen,
          c_in, c_op, c_res, c_fs>>

----------------------------------------------------------------------------
(* Bounds                                                                  *)

\* number of keys the CSPRNG hands out in one run (bounds the calls)
MaxKeys == 2

\* number of plaintext chunks in the input of a streaming rotation
MaxChunks == 2

----------------------------------------------------------------------------
(* Values                                                                  *)

NULL == 0
NoTx == [open |-> FALSE, kh |-> {}, keys |-> {}]
NoNote == "None"

\* plaintext contents; each is stored under its own encrypted path
Plain == {"pA", "pB"}

PlainSize(p) == IF p = "pA" THEN 16 ELSE 12

Procs == {"p1"}

RANDOM_KEY_KDF_ITERATIONS == 1
FILE_KDF_ITERATIONS == 600000

\* BLAKE3 of the content, lowercase hex: injective on the modelled contents
blake3_hex(p) == <<"b3", p>>

FileIds == {blake3_hex(p) : p \in Plain}

PlainOf(fid) == fid[2]

PathOf(fid) == <<"vault", PlainOf(fid)>>

Paths == {PathOf(f) : f \in FileIds}

\* key.expose_secret().to_hex(): the password string derived from key bytes
to_hex(k) == <<"hex", k>>

\* a credential nobody ever used to encrypt anything
BadCred == <<"pw", 0>>

\* the files a keys-only vault may already hold when the run starts
LegacyFiles == {blake3_hex("pB")}

\* the pre-history key a keys-only vault holds for a file
LegacyKey(fid) == IF PlainOf(fid) = "pA" THEN 101 ELSE 102

----------------------------------------------------------------------------
(* CryptoEngine: the container codec as a black box.  Bytes are a record:  *)
(* the innermost content and the encryption layers around it, outermost    *)
(* first; a file that does not exist or was cut short has its own kind.    *)

Data(p) == [kind |-> "data", pt |-> p, layers |-> <<>>]
Absent == [kind |-> "absent", pt |-> "", layers |-> <<>>]
Partial == [kind |-> "partial", pt |-> "", layers |-> <<>>]

Layer(ver, pw, iter) == [ver |-> ver, pw |-> pw, iter |-> iter]

\* aescrypt_rs::encrypt(input, output, password, iterations)
encrypt(b, pw, iter) == [b EXCEPT !.layers = <<Layer(3, pw, iter)>> \o b.layers]

IsContainer(c) == c.kind = "data" /\ c.layers # <<>>

\* an encrypt_to_vec that encrypts its own output once more
encrypt_to_vec_Twice(b, pw) ==
    encrypt(encrypt(b, pw, RANDOM_KEY_KDF_ITERATIONS), pw, RANDOM_KEY_KDF_ITERATIONS)

encrypt_to_vec(b, pw) == encrypt(b, pw, RANDOM_KEY_KDF_ITERATIONS)

\* aescrypt_rs::decrypt succeeds only under the password of the outer layer
CanDecrypt(c, pw) == IsContainer(c) /\ Head(c.layers).pw = pw

decrypt_to_vec(c, pw) ==
    IF CanDecrypt(c, pw) THEN [ok |-> TRUE, pt |-> [c EXCEPT !.layers = Tail(c.layers)]]
    ELSE [ok |-> FALSE, pt |-> Absent]

\* convert_to_v3_ext writes a version-3 CONTAINER under the new password into
\* the buffer; the buffer is then encrypted once more under the new password
upgrade_from_legacy(c, old_pw, k) ==
    IF CanDecrypt(c, old_pw)
    THEN [ok |-> TRUE,
          ct |-> encrypt_to_vec(
                    encrypt(decrypt_to_vec(c, old_pw).pt, to_hex(k),
                            RANDOM_KEY_KDF_ITERATIONS),
                    to_hex(k)),
          key |-> k]
    ELSE [ok |-> FALSE, ct |-> Absent, key |-> 0]

\* ciphertext.starts_with(b"AES\x03")
IsV3(c) == IsContainer(c) /\ Head(c.layers).ver = 3

rotate_key(c, old_pw, k) ==
    IF IsV3(c)
    THEN LET d == decrypt_to_vec(c, old_pw) IN
         IF d.ok
         THEN [ok |-> TRUE, ct |-> encrypt_to_vec(d.pt, to_hex(k)), key |-> k]
         ELSE [ok |-> FALSE, ct |-> Absent, key |-> 0]
    ELSE upgrade_from_legacy(c, old_pw, k)

----------------------------------------------------------------------------
(* KeyStore: tables key_history and keys                                   *)

HistoryOf(kh, fid) == {r \in kh : r.file_id = fid}

\* SELECT COALESCE(MAX(version), 0) FROM key_history WHERE file_id = ?1
MaxVersion(kh, fid) ==
    LET vs == {r.version : r \in HistoryOf(kh, fid)} IN
    IF vs = {} THEN 0 ELSE CHOOSE m \in vs : \A v \in vs : v <= m

\* the trigger, were its statement INSERT OR IGNORE
sync_current_key_after_insert_Ignore(ks, new) ==
    IF new.superseded_at = NULL /\ ~\E k \in ks : k.file_id = new.file_id
    THEN ks \cup {[file_id |-> new.file_id, password_blob |-> new.password_blob,
                   created_at |-> new.created_at, rotated_at |-> NULL]}
    ELSE ks

\* trigger sync_current_key_after_insert
sync_current_key_after_insert(ks, new) ==
    IF new.superseded_at = NULL
    THEN {k \in ks : k.file_id # new.file_id}
         \cup {[file_id |-> new.file_id, password_blob |-> new.password_blob,
                created_at |-> new.created_at, rotated_at |-> NULL]}
    ELSE ks

\* INSERT INTO key_history (file_id, version, password_blob, note)
InsertHistory(db, fid, ver, blob, note, t) ==
    LET row == [file_id |-> fid, version |-> ver, password_blob |-> blob,
                created_at |-> t, superseded_at |-> NULL, note |-> note] IN
    [kh |-> db.kh \cup {row},
     keys |-> sync_current_key_after_insert(db.keys, row)]

\* the UPDATE, were it given new_version instead of current_version
SupersedeVersion_NewVersion(db, fid, ver, t) ==
    [kh |-> {IF r.file_id = fid /\ r.version = ver + 1
             THEN [r EXCEPT !.superseded_at = t] ELSE r : r \in db.kh},
     keys |-> db.keys]

\* the UPDATE without its version condition
SupersedeVersion_EveryVersion(db, fid, ver, t) ==
    [kh |-> {IF r.file_id = fid
             THEN [r EXCEPT !.superseded_at = t] ELSE r : r \in db.kh},
     keys |-> db.keys]

\* UPDATE key_history SET superseded_at = datetime('now')
\*  WHERE file_id = ?1 AND version = ?2
SupersedeVersion(db, fid, ver, t) ==
    [kh |-> {IF r.file_id = fid /\ r.version = ver
             THEN [r EXCEPT !.superseded_at = t] ELSE r : r \in db.kh},
     keys |-> db.keys]

\* a store_key_blob that labels every row 'update'
store_key_blob_AlwaysUpdate(db, fid, key, t) ==
    InsertHistory(db, fid, MaxVersion(db.kh, fid) + 1, key, "update", t)

\* a store_key_blob that always inserts version 1
store_key_blob_VersionOne(db, fid, key, t) ==
    InsertHistory(db, fid, 1, key, "initial", t)

\* the body of store_key_blob's transaction
store_key_blob(db, fid, key, t) ==
    LET version == MaxVersion(db.kh, fid) + 1 IN
    InsertHistory(db, fid, version, key,
                  IF version = 1 THEN "initial" ELSE "update", t)

\* the back-fill, were it INSERT OR REPLACE
Backfill_Replace(kh, ks) ==
    {r \in kh : ~(r.version = 1 /\ \E k \in ks : k.file_id = r.file_id)}
      \cup {[file_id |-> k.file_id, version |-> 1,
             password_blob |-> k.password_blob, created_at |-> k.created_at,
             superseded_at |-> NULL, note |-> "NULL"] : k \in ks}

\* INSERT OR IGNORE INTO key_history (file_id, version, password_blob, created_at)
\*   SELECT file_id, 1, password_blob, created_at FROM keys
\* (note and superseded_at stay NULL; the trigger, when it already exists, runs
\*  under the statement's OR IGNORE and leaves the keys row in place)
Backfill(kh, ks) ==
    kh \cup {[file_id |-> k.file_id, version |-> 1,
              password_blob |-> k.password_blob, created_at |-> k.created_at,
              superseded_at |-> NULL, note |-> "NULL"] :
             k \in {x \in ks : ~\E r \in kh : r.file_id = x.file_id /\ r.version = 1}}


----------------------------------------------------------------------------
(* MetadataIndex: table files                                              *)

\* INSERT OR REPLACE INTO files (...) VALUES (..., datetime('now'), ...)
store_file_entry(fs, fid, path, t) ==
    {f \in fs : f.file_id # fid}
    \cup {[file_id |-> fid, content_hash |-> fid, display_name |-> PlainOf(fid),
           current_path |-> path, plaintext_size |-> PlainSize(PlainOf(fid)),
           created_at |-> t, rotated_at |-> NULL]}

\* the UPDATE without its WHERE clause
MarkRotated_EveryRow(fs, fid, t) ==
    {[f EXCEPT !.rotated_at = t] : f \in fs}

\* UPDATE files SET rotated_at = datetime('now') WHERE file_id = ?1
MarkRotated(fs, fid, t) ==
    {IF f.file_id = fid THEN [f EXCEPT !.rotated_at = t] ELSE f : f \in fs}

----------------------------------------------------------------------------
(* Calls in progress                                                       *)

IdleLoc == [op |-> "none", fid |-> <<"b3", "">>, path |-> <<"vault", "">>,
            cred |-> BadCred, note |-> NoNote, key |-> 0,
            ct |-> Absent, newct |-> Absent, ver |-> 0]

NoLast == [op |-> "none", fid |-> <<"b3", "">>, res |-> "none", at |-> "none", key |-> 0]

Snapshot == [disk |-> disk, kh |-> key_history, keys |-> keys, files |-> files]

NoTrack == [adds |-> 0, notes |-> <<>>, dirty |-> FALSE]

\* a file_id whose key history is no longer that of one add_file followed by
\* successful rotations only
Dirty == [adds |-> 0, notes |-> <<>>, dirty |-> TRUE]

\* what a finished call adds to the record kept of its file_id
Tracked(t, op, res, note) ==
    IF t.dirty THEN Dirty
    ELSE IF op = "rotate" /\ res = "Ok" /\ t.adds = 1 THEN [t EXCEPT !.notes = Append(@, note)]
    ELSE IF op = "add" /\ res = "Ok" /\ t.adds = 1 /\ t.notes = <<>> THEN t
    ELSE Dirty

\* add_file has stored a key for the file_id
TrackedAdd(t) == IF t.dirty \/ t.adds # 0 THEN Dirty ELSE [t EXCEPT !.adds = 1]

\* the call of process p returns res (an error drops an open transaction:
\* rusqlite rolls back when a Transaction is dropped)
Return(p, res) ==
    /\ pc' = [pc EXCEPT ![p] = "idle"]
    /\ last' = [last EXCEPT ![p] = [op |-> loc[p].op, fid |-> loc[p].fid, res |-> res,
                                    at |-> pc[p],
                                    key |-> IF res = "Ok" THEN loc[p].key ELSE 0]]
    /\ loc' = [loc EXCEPT ![p] = IdleLoc]
    /\ tx' = [tx EXCEPT ![p] = NoTx]
    /\ track' = [track EXCEPT ![loc[p].fid] = Tracked(@, loc[p].op, res, loc[p].note)]

Goto(p, label) ==
    /\ pc' = [pc EXCEPT ![p] = label]
    /\ UNCHANGED <<last, track>>

\* the credentials a caller may present for the file at path q: the one that
\* opens the bytes on disk, or one that does not
Creds(q) ==
    {BadCred} \cup (IF IsContainer(disk[q]) THEN {Head(disk[q].layers).pw} ELSE {})

Notes == {NoNote, "n1"}

\* note.unwrap_or("rotation")
NoteOrDefault(note) == IF note = NoNote THEN "rotation" ELSE note

----------------------------------------------------------------------------
(* open_vault_db                                                           *)

open_vault_db ==
    /\ \A p \in Procs : pc[p] = "idle"
    /\ schema' = "current"
    /\ key_history' = Backfill(key_history, keys)
    /\ UNCHANGED <<disk, keys, files, now, nextKey, pc, loc, tx, last, pre, track>>
    /\ UNCHANGED <<streamVars, cryptoVars>>

----------------------------------------------------------------------------
(* The vault database file shared by several connections (SQLite, rollback *)
(* journal): a transaction that has read holds a shared lock until it      *)
(* ends, its first write takes the reserved lock, its commit needs every   *)
(* other connection's shared lock released.                                *)

\* another connection has a transaction open that has read
OtherReads(p) == \E q \in DOMAIN pc : q # p /\ tx[q].open

\* another connection has a transaction open that has written
OtherWrites(p) ==
    \E q \in DOMAIN pc : q # p /\ tx[q].open /\ pc[q] \in {"rot_insert", "rot_commit"}

----------------------------------------------------------------------------
(* rotate_key_in_vault                                                     *)

RotateCall(p) ==
    /\ pc[p] = "idle" /\ schema = "current"
    /\ \E fid \in FileIds, note \in Notes :
         \E cred \in Creds(PathOf(fid)) :
            loc' = [loc EXCEPT ![p] = [IdleLoc EXCEPT !.op = "rotate", !.fid = fid,
                        !.path = PathOf(fid), !.cred = cred, !.note = note]]
    /\ pre' = [pre EXCEPT ![p] = Snapshot]
    /\ pc' = [pc EXCEPT ![p] = "rot_read"]
    /\ last' = [last EXCEPT ![p] = NoLast]
    /\ UNCHANGED <<disk, key_history, keys, files, schema, now, nextKey, tx, track>>
    /\ UNCHANGED <<streamVars, cryptoVars>>

\* let ciphertext = std::fs::read(encrypted_path)?;
RotRead(p) ==
    /\ pc[p] = "rot_read"
    /\ \E io_ok \in BOOLEAN :
         IF io_ok /\ disk[loc[p].path].kind # "absent"
         THEN /\ loc' = [loc EXCEPT ![p].ct = disk[loc[p].path]]
              /\ Goto(p, "rot_crypto")
              /\ UNCHANGED tx
         ELSE Return(p, "Io")
    /\ UNCHANGED <<disk, key_history, keys, files, schema, now, nextKey, pre>>
    /\ UNCHANGED <<streamVars, cryptoVars>>

\* the crypto step, were the transaction run before the file is written
RotCrypto_TxFirst(p) ==
    /\ pc[p] = "rot_crypto"
    /\ LET r == rotate_key(loc[p].ct, loc[p].cred, nextKey) IN
         IF r.ok
         THEN /\ nextKey <= MaxKeys
              /\ nextKey' = nextKey + 1
              /\ loc' = [loc EXCEPT ![p].newct = r.ct, ![p].key = r.key]
              /\ Goto(p, "rot_begin")
              /\ UNCHANGED tx
         ELSE /\ Return(p, "Crypto")
              /\ UNCHANGED nextKey
    /\ UNCHANGED <<disk, key_history, keys, files, schema, now, pre>>
    /\ UNCHANGED <<streamVars, cryptoVars>>

\* let (new_ciphertext, new_key) = rotate_key(&ciphertext, old_password)?;
RotCrypto(p) ==
    /\ pc[p] = "rot_crypto"
    /\ LET r == rotate_key(loc[p].ct, loc[p].cred, nextKey) IN
         IF r.ok
         THEN /\ nextKey <= MaxKeys
              /\ nextKey' = nextKey + 1
              /\ loc' = [loc EXCEPT ![p].newct = r.ct, ![p].key = r.key]
              /\ Goto(p, "rot_write")
              /\ UNCHANGED tx
         ELSE /\ Return(p, "Crypto")
              /\ UNCHANGED nextKey
    /\ UNCHANGED <<disk, key_history, keys, files, schema, now, pre>>
    /\ UNCHANGED <<streamVars, cryptoVars>>

\* std::fs::write(encrypted_path, new_ciphertext)?  -- File::create truncates
\* the file in place ...
RotWriteOpen(p) ==
    /\ pc[p] = "rot_write"
    /\ \E io_ok \in BOOLEAN :
         IF io_ok
         THEN /\ disk' = [disk EXCEPT ![loc[p].path] = Partial]
              /\ Goto(p, "rot_writing")
              /\ UNCHANGED <<loc, tx>>
         ELSE /\ Return(p, "Io")
              /\ UNCHANGED disk
    /\ UNCHANGED <<key_history, keys, files, schema, now, nextKey, pre>>
    /\ UNCHANGED <<streamVars, cryptoVars>>

\* ... and write_all fills it
RotWriteAll(p) ==
    /\ pc[p] = "rot_writing"
    /\ \E io_ok \in BOOLEAN :
         IF io_ok
         THEN /\ disk' = [disk EXCEPT ![loc[p].path] = loc[p].newct]
              /\ Goto(p, "rot_begin")
              /\ UNCHANGED <<loc, tx>>
         ELSE /\ Return(p, "Io")
              /\ UNCHANGED disk
    /\ UNCHANGED <<key_history, keys, files, schema, now, nextKey, pre>>
    /\ UNCHANGED <<streamVars, cryptoVars>>

\* let tx = vault_conn.transaction()?;  SELECT COALESCE(MAX(version), 0) ...;
\* if current_version == 0 { return Err(QueryReturnedNoRows) }
RotBegin(p) ==
    /\ pc[p] = "rot_begin"
    /\ \E sql_ok \in BOOLEAN :
         LET cur == MaxVersion(key_history, loc[p].fid) IN
         IF ~sql_ok THEN Return(p, "Sql")
         ELSE IF cur = 0 THEN Return(p, "NoRows")
         ELSE /\ tx' = [tx EXCEPT ![p] = [open |-> TRUE, kh |-> key_history, keys |-> keys]]
              /\ loc' = [loc EXCEPT ![p].ver = cur]
              /\ Goto(p, "rot_update")
    /\ UNCHANGED <<disk, key_history, keys, files, schema, now, nextKey, pre>>
    /\ UNCHANGED <<streamVars, cryptoVars>>

\* the UPDATE, were it run on the connection outside the transaction
RotUpdate_Autocommit(p) ==
    /\ pc[p] = "rot_update"
    /\ \E sql_ok \in BOOLEAN :
         IF sql_ok
         THEN /\ LET d == SupersedeVersion([kh |-> key_history, keys |-> keys],
                                           loc[p].fid, loc[p].ver, now) IN
                   /\ key_history' = d.kh
                   /\ tx' = [tx EXCEPT ![p] = [open |-> TRUE, kh |-> d.kh, keys |-> d.keys]]
              /\ Goto(p, "rot_insert")
              /\ UNCHANGED loc
         ELSE /\ Return(p, "Sql")
              /\ UNCHANGED key_history
    /\ UNCHANGED <<disk, keys, files, schema, now, nextKey, pre>>
    /\ UNCHANGED <<streamVars, cryptoVars>>

\* UPDATE key_history SET superseded_at = datetime('now') WHERE ... version = ?2
\* (the first write of the transaction: SQLITE_BUSY when another connection
\* is writing)
RotUpdate(p) ==
    /\ pc[p] = "rot_update"
    /\ \E sql_ok \in BOOLEAN :
         IF sql_ok /\ ~OtherWrites(p)
         THEN /\ LET d == SupersedeVersion(tx[p], loc[p].fid, loc[p].ver, now) IN
                 tx' = [tx EXCEPT ![p] = [open |-> TRUE, kh |-> d.kh, keys |-> d.keys]]
              /\ Goto(p, "rot_insert")
              /\ UNCHANGED loc
         ELSE Return(p, "Sql")
    /\ UNCHANGED <<disk, key_history, keys, files, schema, now, nextKey, pre>>
    /\ UNCHANGED <<streamVars, cryptoVars>>

\* INSERT INTO key_history (...) VALUES (file_id, new_version, new_key, note)
RotInsert(p) ==
    /\ pc[p] = "rot_insert"
    /\ \E sql_ok \in BOOLEAN :
         IF sql_ok
         THEN /\ LET d == InsertHistory(tx[p], loc[p].fid, loc[p].ver + 1, loc[p].key,
                             NoteOrDefault(loc[p].note), now) IN
                 tx' = [tx EXCEPT ![p] = [open |-> TRUE, kh |-> d.kh, keys |-> d.keys]]
              /\ Goto(p, "rot_commit")
              /\ UNCHANGED loc
         ELSE Return(p, "Sql")
    /\ UNCHANGED <<disk, key_history, keys, files, schema, now, nextKey, pre>>
    /\ UNCHANGED <<streamVars, cryptoVars>>

\* a commit that does not wait for the other connections' transactions
RotCommit_NoWait(p) ==
    /\ pc[p] = "rot_commit"
    /\ \E sql_ok \in BOOLEAN :
         IF sql_ok
         THEN /\ key_history' = tx[p].kh
              /\ keys' = tx[p].keys
              /\ tx' = [tx EXCEPT ![p] = NoTx]
              /\ now' = now + 1
              /\ Goto(p, "rot_index")
              /\ UNCHANGED loc
         ELSE /\ Return(p, "Sql")
              /\ UNCHANGED <<key_history, keys, now>>
    /\ UNCHANGED <<disk, files, schema, nextKey, pre>>
    /\ UNCHANGED <<streamVars, cryptoVars>>

\* tx.commit(): waits until no other connection reads, or gives up (SQLITE_BUSY)
RotCommit(p) ==
    /\ pc[p] = "rot_commit"
    /\ \E sql_ok \in BOOLEAN :
         /\ sql_ok => ~OtherReads(p)
         /\ IF sql_ok
            THEN /\ key_history' = tx[p].kh
                 /\ keys' = tx[p].keys
                 /\ tx' = [tx EXCEPT ![p] = NoTx]
                 /\ now' = now + 1
                 /\ Goto(p, "rot_index")
                 /\ UNCHANGED loc
            ELSE /\ Return(p, "Sql")
                 /\ UNCHANGED <<key_history, keys, now>>
    /\ UNCHANGED <<disk, files, schema, nextKey, pre>>
    /\ UNCHANGED <<streamVars, cryptoVars>>

\* an index update that, when it fails, puts the key store back as it was
\* at the entry of the call
RotIndex_UndoOnFailure(p) ==
    /\ pc[p] = "rot_index"
    /\ \E sql_ok \in BOOLEAN :
         IF sql_ok
         THEN /\ files' = MarkRotated(files, loc[p].fid, now)
              /\ now' = now + 1
              /\ Return(p, "Ok")
              /\ UNCHANGED <<key_history, keys>>
         ELSE /\ Return(p, "Sql")
              /\ key_history' = pre[p].kh
              /\ keys' = pre[p].keys
              /\ UNCHANGED <<files, now>>
    /\ UNCHANGED <<disk, schema, nextKey, pre>>
    /\ UNCHANGED <<streamVars, cryptoVars>>

\* index_conn.execute("UPDATE files SET rotated_at = datetime('now') ...")?;
\* Ok(new_key)
RotIndex(p) ==
    /\ pc[p] = "rot_index"
    /\ \E sql_ok \in BOOLEAN :
         IF sql_ok
         THEN /\ files' = MarkRotated(files, loc[p].fid, now)
              /\ now' = now + 1
              /\ Return(p, "Ok")
         ELSE /\ Return(p, "Sql")
              /\ UNCHANGED <<files, now>>
    /\ UNCHANGED <<disk, key_history, keys, schema, nextKey, pre>>
    /\ UNCHANGED <<streamVars, cryptoVars>>

rotate_key_in_vault(p) ==
    \/ RotateCall(p) \/ RotRead(p) \/ RotCrypto(p) \/ RotWriteOpen(p)
    \/ RotWriteAll(p) \/ RotBegin(p) \/ RotUpdate(p) \/ RotInsert(p)
    \/ RotCommit(p) \/ RotIndex(p)


----------------------------------------------------------------------------
(* add_file                                                                *)

AddCall(p) ==
    /\ pc[p] = "idle" /\ schema = "current"
    /\ \E plain \in Plain :
         loc' = [loc EXCEPT ![p] = [IdleLoc EXCEPT !.op = "add",
                    !.fid = blake3_hex(plain), !.path = PathOf(blake3_hex(plain))]]
    /\ pre' = [pre EXCEPT ![p] = Snapshot]
    /\ pc' = [pc EXCEPT ![p] = "add_read"]
    /\ last' = [last EXCEPT ![p] = NoLast]
    /\ UNCHANGED <<disk, key_history, keys, files, schema, now, nextKey, tx, track>>
    /\ UNCHANGED <<streamVars, cryptoVars>>

\* let plaintext = std::fs::read(plaintext_path)?;  let key = generate_key();
AddRead(p) ==
    /\ pc[p] = "add_read"
    /\ \E io_ok \in BOOLEAN :
         IF io_ok
         THEN /\ nextKey <= MaxKeys
              /\ nextKey' = nextKey + 1
              /\ loc' = [loc EXCEPT ![p].key = nextKey,
                                    ![p].newct = encrypt_to_vec(Data(PlainOf(loc[p].fid)),
                                                                to_hex(nextKey))]
              /\ Goto(p, "add_write")
              /\ UNCHANGED tx
         ELSE /\ Return(p, "Io")
              /\ UNCHANGED nextKey
    /\ UNCHANGED <<disk, key_history, keys, files, schema, now, pre>>
    /\ UNCHANGED <<streamVars, cryptoVars>>

\* encrypt_file(plaintext_path, encrypted_path, &password)?: reads the input,
\* encrypt_to_vec, then std::fs::write: File::create truncates the output ...
AddWriteOpen(p) ==
    /\ pc[p] = "add_write"
    /\ \E io_ok \in BOOLEAN :
         IF io_ok
         THEN /\ disk' = [disk EXCEPT ![loc[p].path] = Partial]
              /\ Goto(p, "add_writing")
              /\ UNCHANGED <<loc, tx>>
         ELSE /\ Return(p, "Io")
              /\ UNCHANGED disk
    /\ UNCHANGED <<key_history, keys, files, schema, now, nextKey, pre>>
    /\ UNCHANGED <<streamVars, cryptoVars>>

\* ... and write_all fills it
AddWriteAll(p) ==
    /\ pc[p] = "add_writing"
    /\ \E io_ok \in BOOLEAN :
         IF io_ok
         THEN /\ disk' = [disk EXCEPT ![loc[p].path] = loc[p].newct]
              /\ Goto(p, "add_store_key")
              /\ UNCHANGED <<loc, tx>>
         ELSE /\ Return(p, "Io")
              /\ UNCHANGED disk
    /\ UNCHANGED <<key_history, keys, files, schema, now, nextKey, pre>>
    /\ UNCHANGED <<streamVars, cryptoVars>>

\* let file_id = blake3_hex(&plaintext);  store_key_blob(vault_conn, &file_id, &key)?;
AddStoreKey(p) ==
    /\ pc[p] = "add_store_key"
    /\ \E sql_ok \in BOOLEAN :
         IF sql_ok
         THEN /\ LET d == store_key_blob([kh |-> key_history, keys |-> keys],
                                         loc[p].fid, loc[p].key, now) IN
                   /\ key_history' = d.kh
                   /\ keys' = d.keys
              /\ now' = now + 1
              /\ pc' = [pc EXCEPT ![p] = "add_store_entry"]
              /\ track' = [track EXCEPT ![loc[p].fid] = TrackedAdd(@)]
              /\ UNCHANGED <<loc, tx, last>>
         ELSE /\ Return(p, "Sql")
              /\ UNCHANGED <<key_history, keys, now>>
    /\ UNCHANGED <<disk, files, schema, nextKey, pre>>
    /\ UNCHANGED <<streamVars, cryptoVars>>

\* store_file_entry(index_conn, &entry)?;  Ok(entry)
AddStoreEntry(p) ==
    /\ pc[p] = "add_store_entry"
    /\ \E sql_ok \in BOOLEAN :
         IF sql_ok
         THEN /\ files' = store_file_entry(files, loc[p].fid, loc[p].path, now)
              /\ now' = now + 1
              /\ Return(p, "Ok")
         ELSE /\ Return(p, "Sql")
              /\ UNCHANGED <<files, now>>
    /\ UNCHANGED <<disk, key_history, keys, schema, nextKey, pre>>
    /\ UNCHANGED <<streamVars, cryptoVars>>

add_file(p) ==
    \/ AddCall(p) \/ AddRead(p) \/ AddWriteOpen(p) \/ AddWriteAll(p)
    \/ AddStoreKey(p) \/ AddStoreEntry(p)

----------------------------------------------------------------------------
(* store_key_blob called on its own, with a freshly generated key          *)

StoreKeyBlobCall(p) ==
    /\ pc[p] = "idle" /\ schema = "current"
    /\ nextKey <= MaxKeys
    /\ \E fid \in FileIds, sql_ok \in BOOLEAN :
         /\ IF sql_ok
            THEN LET d == store_key_blob([kh |-> key_history, keys |-> keys],
                                         fid, nextKey, now) IN
                   /\ key_history' = d.kh
                   /\ keys' = d.keys
                   /\ now' = now + 1
            ELSE UNCHANGED <<key_history, keys, now>>
         /\ last' = [last EXCEPT ![p] = [op |-> "store", fid |-> fid,
                        res |-> IF sql_ok THEN "Ok" ELSE "Sql", at |-> "store",
                        key |-> nextKey]]
         /\ track' = [track EXCEPT ![fid] = Dirty]
    /\ pre' = [pre EXCEPT ![p] = Snapshot]
    /\ nextKey' = nextKey + 1
    /\ UNCHANGED <<disk, files, schema, pc, loc, tx>>
    /\ UNCHANGED <<streamVars, cryptoVars>>

----------------------------------------------------------------------------
(* A crash (or kill, or power loss) of the process inside a call: the call *)
(* stops where it is; an open transaction is rolled back by the database.  *)

Crash(p) ==
    /\ pc[p] # "idle"
    /\ Return(p, "crash")
    /\ UNCHANGED <<disk, key_history, keys, files, schema, now, nextKey, pre>>
    /\ UNCHANGED <<streamVars, cryptoVars>>

----------------------------------------------------------------------------
(* The vault                                                               *)

\* a vault of the keys-only schema (src/vault.rs) holding the files of Legacy
LegacyKeys(Legacy) ==
    {[file_id |-> f, password_blob |-> LegacyKey(f), created_at |-> 1,
      rotated_at |-> NULL] : f \in Legacy}

StreamIdle ==
    /\ s_in = <<>>
    /\ s_pc = <<>>
    /\ s_pipe = <<>>
    /\ s_out = <<>>
    /\ s_seen = <<>>

CryptoIdle ==
    /\ c_in = <<>>
    /\ c_op = "none"
    /\ c_res = <<>>
    /\ c_fs = <<>>

Init ==
    /\ \E Legacy \in SUBSET LegacyFiles :
         /\ keys = LegacyKeys(Legacy)
         /\ disk = [q \in Paths |->
                      IF \E f \in Legacy : PathOf(f) = q
                      THEN LET f == CHOOSE f \in Legacy : PathOf(f) = q IN
                           encrypt_to_vec(Data(PlainOf(f)), to_hex(LegacyKey(f)))
                      ELSE Absent]
         /\ files = {[file_id |-> f, content_hash |-> f, display_name |-> PlainOf(f),
                      current_path |-> PathOf(f),
                      plaintext_size |-> PlainSize(PlainOf(f)),
                      created_at |-> 1, rotated_at |-> NULL] : f \in Legacy}
         /\ track = [f \in FileIds |-> IF f \in Legacy THEN Dirty ELSE NoTrack]
    /\ key_history = {}
    /\ schema = "legacy"
    /\ now = 2
    /\ nextKey = 1
    /\ pc = [p \in Procs |-> "idle"]
    /\ loc = [p \in Procs |-> IdleLoc]
    /\ tx = [p \in Procs |-> NoTx]
    /\ last = [p \in Procs |-> NoLast]
    /\ pre = [p \in Procs |-> [disk |-> [q \in Paths |-> Absent], kh |-> {},
                               keys |-> {}, files |-> {}]]
    /\ StreamIdle
    /\ CryptoIdle

Next ==
    \/ open_vault_db
    \/ \E p \in Procs : rotate_key_in_vault(p)
    \/ \E p \in Procs : add_file(p)
    \/ \E p \in Procs : StoreKeyBlobCall(p)
    \/ \E p \in Procs : Crash(p)

Spec == Init /\ [][Next]_vars


----------------------------------------------------------------------------
(* Properties of the vault                                                 *)

\* a file the vault knows (a key on record or an index row) with bytes at its path
IsVaultFile(fid) ==
    /\ disk[PathOf(fid)].kind # "absent"
    /\ \/ HistoryOf(key_history, fid) # {}
       \/ \E f \in files : f.file_id = fid

\* some key on record for the file opens the bytes at its path
Recoverable(fid) ==
    \E r \in HistoryOf(key_history, fid) :
        CanDecrypt(disk[PathOf(fid)], to_hex(r.password_blob))

CurrentRows(kh, fid) == {r \in HistoryOf(kh, fid) : r.superseded_at = NULL}

Rotating(p) == loc[p].op = "rotate"

\* positions of rotate_key_in_vault before std::fs::write has returned
BeforeSwapDone == {"rot_read", "rot_crypto", "rot_write", "rot_writing"}

\* positions of rotate_key_in_vault inside the key-history transaction
TxStages == {"rot_begin", "rot_update", "rot_insert", "rot_commit"}

\* C1: in every state of an opened vault, including the states inside add_file
\* and rotate_key_in_vault and those a crash or an error return leaves behind,
\* the bytes at a vault file's path open under a key recorded in key_history.
C1_NoOrphan ==
    schema = "current" =>
        \A fid \in FileIds : IsVaultFile(fid) => Recoverable(fid)

\* C2: as long as rotate_key_in_vault has not finished replacing the file, the
\* path holds the complete original ciphertext and the key store is as it was,
\* whether the call is still running or was interrupted there; the path never
\* holds a partially written container.
C2_InterruptedKeepsOriginal ==
    \A p \in Procs :
        /\ (Rotating(p) /\ pc[p] \in BeforeSwapDone) =>
              /\ disk[loc[p].path] = pre[p].disk[loc[p].path]
              /\ key_history = pre[p].kh /\ keys = pre[p].keys
        /\ (last[p].op = "rotate" /\ last[p].at \in BeforeSwapDone) =>
              /\ disk[PathOf(last[p].fid)] = pre[p].disk[PathOf(last[p].fid)]
              /\ key_history = pre[p].kh /\ keys = pre[p].keys

\* C3: in rotate_key_in_vault the key store is touched (a transaction opened,
\* key_history or keys changed) only once the new ciphertext has been written
\* to the path in full; a call that fails in the crypto step or in the file
\* write leaves key_history and keys as they were.
C3_KeyStoreOnlyAfterSwap ==
    \A p \in Procs :
        /\ (Rotating(p) /\ (tx[p].open \/ key_history # pre[p].kh \/ keys # pre[p].keys)) =>
              /\ pc[p] \notin BeforeSwapDone
              /\ disk[loc[p].path] = loc[p].newct
              /\ CanDecrypt(disk[loc[p].path], to_hex(loc[p].key))
        /\ (last[p].op = "rotate" /\ last[p].res \in {"Io", "Crypto"}) =>
              key_history = pre[p].kh /\ keys = pre[p].keys

\* C3 has happened: a rotation has committed its key-history change
C3_Witness ==
    \E p \in Procs : Rotating(p) /\ pc[p] = "rot_index" /\ key_history # pre[p].kh

\* C4: for every file_id the versions in key_history are 1..n without gaps and
\* exactly one row, the one of version n, has superseded_at null.
C4_ContiguousOneCurrent ==
    \A fid \in FileIds :
        LET H == HistoryOf(key_history, fid)
            n == Cardinality(H) IN
        H # {} =>
            /\ {r.version : r \in H} = 1..n
            /\ CurrentRows(key_history, fid) = {r \in H : r.version = n}

\* C5: after add_file and n successful rotations of a file_id (and nothing
\* else), key_history has n+1 rows for it, versions 1..n+1; rows 1..n are
\* superseded and row n+1 is not; row 1 has note 'initial' and the row of the
\* i-th rotation has the caller's note, or 'rotation' when none was given.
C5_HistoryAfterRotations ==
    \A fid \in FileIds :
        (/\ ~track[fid].dirty /\ track[fid].adds = 1
         /\ \A p \in Procs : pc[p] = "idle" \/ loc[p].fid # fid) =>
            LET H == HistoryOf(key_history, fid)
                n == Len(track[fid].notes) IN
            /\ Cardinality(H) = n + 1
            /\ {r.version : r \in H} = 1..(n + 1)
            /\ \A r \in H :
                 /\ (r.superseded_at # NULL) <=> (r.version <= n)
                 /\ r.version = 1 => r.note = "initial"
                 /\ r.version > 1 =>
                      r.note = IF track[fid].notes[r.version - 1] = NoNote
                               THEN "rotation" ELSE track[fid].notes[r.version - 1]

\* C5 has happened: add_file and one successful rotation with a caller's note
C5_Witness ==
    \E fid \in FileIds :
        /\ ~track[fid].dirty /\ track[fid].adds = 1 /\ track[fid].notes = <<"n1">>
        /\ \A p \in Procs : pc[p] = "idle"

\* C6: for every file_id with key_history rows the keys table holds exactly one
\* row and its password_blob is that of the single non-superseded row.
C6_KeysMirrorsCurrent ==
    \A fid \in FileIds :
        HistoryOf(key_history, fid) # {} =>
            /\ Cardinality({k \in keys : k.file_id = fid}) = 1
            /\ Cardinality(CurrentRows(key_history, fid)) = 1
            /\ \A k \in keys : \A r \in CurrentRows(key_history, fid) :
                 k.file_id = fid => k.password_blob = r.password_blob

\* the committed effect of one rotation of fid to key k: the highest row gets
\* superseded, a row of the next version holding k is added, keys holds k
IsRotationOf(kh0, ks0, kh1, ks1, fid, k) ==
    \E old \in HistoryOf(kh0, fid) :
        /\ old.version = MaxVersion(kh0, fid)
        /\ \E new \in kh1 \ kh0, sup \in kh1 \ kh0 :
             /\ new # sup
             /\ kh1 = (kh0 \ {old}) \cup {sup, new}
             /\ sup.superseded_at # NULL
             /\ [sup EXCEPT !.superseded_at = old.superseded_at] = old
             /\ new.file_id = fid /\ new.version = old.version + 1
             /\ new.password_blob = k /\ new.superseded_at = NULL
        /\ {r.password_blob : r \in {x \in ks1 : x.file_id = fid}} = {k}
        /\ {x \in ks1 : x.file_id # fid} = {x \in ks0 : x.file_id # fid}

\* C7: every step of the key-history transaction of rotate_key_in_vault leaves
\* the committed key_history and keys as they were before the call, except the
\* commit, which applies the whole rotation at once; so a failure at any step
\* leaves both tables as before the call, and half a rotation is never visible.
C7_RotationAllOrNothing ==
    [][\A p \in Procs :
         (Rotating(p) /\ pc[p] \in TxStages) =>
            \/ /\ key_history' = pre[p].kh /\ keys' = pre[p].keys
               /\ key_history = pre[p].kh /\ keys = pre[p].keys
               /\ pc'[p] # "rot_index"
            \/ /\ pc[p] = "rot_commit" /\ pc'[p] = "rot_index"
               /\ key_history = pre[p].kh /\ keys = pre[p].keys
               /\ IsRotationOf(key_history, keys, key_history', keys',
                               loc[p].fid, loc[p].key)]_vars

\* C7 has happened: the transaction failed at its commit, after the UPDATE and
\* the INSERT had run
C7_Witness ==
    \E p \in Procs :
        /\ last[p].op = "rotate" /\ last[p].res = "Sql" /\ last[p].at = "rot_commit"
        /\ key_history = pre[p].kh /\ keys = pre[p].keys

\* C8: when rotate_key_in_vault fails because the file_id has no key_history
\* version, the file at the path has the bytes it had before the call and
\* key_history, keys and files are unchanged.
C8_NoVersionLeavesAllUntouched ==
    \A p \in Procs :
        (last[p].op = "rotate" /\ last[p].res = "NoRows") =>
            /\ disk[PathOf(last[p].fid)] = pre[p].disk[PathOf(last[p].fid)]
            /\ key_history = pre[p].kh /\ keys = pre[p].keys /\ files = pre[p].files


----------------------------------------------------------------------------
(* rotate_key_streaming: the caller and its two threads.                   *)
(*                                                                         *)
(* pipe() is a rendezvous channel: a write hands one chunk to the reader   *)
(* and returns once the reader has taken it; it fails with BrokenPipe when *)
(* the reader is dropped; a read returns end-of-stream once the writer is  *)
(* dropped.  first = (decrypt_reader, decrypt_writer), second =            *)
(* (encrypt_reader, encrypt_writer).                                       *)

NoChunk == 0

\* chunks a channel holds between a write and the matching read
ChannelCapacity == 1

OpenPipe == [w |-> TRUE, r |-> TRUE, slot |-> NoChunk]

\* the runs: how many chunks the input decrypts to, where decryption fails
\* ("header": wrong credential or corrupt header, before any output; "mac":
\* authentication failure at the end of the data) and where the output sink
\* fails ("header": the first write; "chunk": the first chunk written)
StreamInputs ==
    [n : 0..MaxChunks, dfail : {"ok", "header", "mac"}, ofail : {"ok", "header", "chunk"}]

VaultIdle ==
    /\ disk = [q \in Paths |-> Absent]
    /\ key_history = {}
    /\ keys = {}
    /\ files = {}
    /\ schema = "legacy"
    /\ now = 2
    /\ nextKey = 1
    /\ pc = [p \in Procs |-> "idle"]
    /\ loc = [p \in Procs |-> IdleLoc]
    /\ tx = [p \in Procs |-> NoTx]
    /\ last = [p \in Procs |-> NoLast]
    /\ pre = [p \in Procs |-> [disk |-> [q \in Paths |-> Absent], kh |-> {},
                               keys |-> {}, files |-> {}]]
    /\ track = [f \in FileIds |-> NoTrack]

\* the state once both threads are spawned and the caller enters io::copy
InitStream ==
    /\ VaultIdle
    /\ CryptoIdle
    /\ s_in \in StreamInputs
    /\ s_pc = [m |-> "m_read", d |-> "d_header", e |-> "e_header",
               i |-> 1, mhold |-> NoChunk, ehold |-> NoChunk]
    /\ s_pipe = [first |-> OpenPipe, second |-> OpenPipe]
    /\ s_out = <<>>
    /\ s_seen = [emitted |-> <<>>, copied |-> <<>>, consumed |-> <<>>]

DecryptDone == {"d_ok", "d_err"}
EncryptDone == {"e_ok", "e_err"}
Returned == {"ret_ok", "ret_io", "ret_crypto"}

\* a decrypt thread whose channel stays open when it ends
DecryptEnds_KeepsWriter(res) ==
    /\ s_pc' = [s_pc EXCEPT !.d = res]
    /\ UNCHANGED s_pipe

\* the decrypt thread ends: its closure drops decrypt_writer
DecryptEnds(res) ==
    /\ s_pc' = [s_pc EXCEPT !.d = res]
    /\ s_pipe' = [s_pipe EXCEPT !.first.w = FALSE, !.first.slot = NoChunk]

\* decrypt(input, decrypt_writer, &old_password): header and credential check
DecryptHeader ==
    /\ s_pc.d = "d_header"
    /\ IF s_in.dfail = "header"
       THEN DecryptEnds("d_err")
       ELSE s_pc' = [s_pc EXCEPT !.d = "d_emit"] /\ UNCHANGED s_pipe
    /\ UNCHANGED <<s_in, s_out, s_seen>>
    /\ UNCHANGED <<vaultVars, cryptoVars>>

\* decrypt writes the next plaintext chunk into decrypt_writer
DecryptWrite ==
    /\ s_pc.d = "d_emit" /\ s_pc.i <= s_in.n
    /\ IF s_pipe.first.r
       THEN /\ s_pipe' = [s_pipe EXCEPT !.first.slot = s_pc.i]
            /\ s_pc' = [s_pc EXCEPT !.d = "d_sending"]
       ELSE DecryptEnds("d_err")
    /\ UNCHANGED <<s_in, s_out, s_seen>>
    /\ UNCHANGED <<vaultVars, cryptoVars>>

\* a write into a channel that queues: it returns without waiting for the reader
DecryptWritten_NoWait ==
    /\ s_pc.d = "d_sending"
    /\ s_pc' = [s_pc EXCEPT !.d = "d_emit", !.i = @ + 1]
    /\ s_seen' = [s_seen EXCEPT !.emitted = Append(@, s_pc.i)]
    /\ UNCHANGED s_pipe
    /\ UNCHANGED <<s_in, s_out>>
    /\ UNCHANGED <<vaultVars, cryptoVars>>

\* the write returns: the reader took the chunk, or the reader is gone
DecryptWritten ==
    /\ s_pc.d = "d_sending"
    /\ \/ /\ s_pipe.first.slot = NoChunk
          /\ s_pc' = [s_pc EXCEPT !.d = "d_emit", !.i = @ + 1]
          /\ s_seen' = [s_seen EXCEPT !.emitted = Append(@, s_pc.i)]
          /\ UNCHANGED s_pipe
       \/ /\ s_pipe.first.slot # NoChunk /\ ~s_pipe.first.r
          /\ DecryptEnds("d_err")
          /\ UNCHANGED s_seen
    /\ UNCHANGED <<s_in, s_out>>
    /\ UNCHANGED <<vaultVars, cryptoVars>>

\* end of the data: the authentication check, then the thread returns
DecryptFinal ==
    /\ s_pc.d = "d_emit" /\ s_pc.i > s_in.n
    /\ DecryptEnds(IF s_in.dfail = "mac" THEN "d_err" ELSE "d_ok")
    /\ UNCHANGED <<s_in, s_out, s_seen>>
    /\ UNCHANGED <<vaultVars, cryptoVars>>

DecryptStep == DecryptHeader \/ DecryptWrite \/ DecryptWritten \/ DecryptFinal

\* the encrypt thread ends: its closure drops encrypt_reader and the output
EncryptEnds(res) ==
    /\ s_pc' = [s_pc EXCEPT !.e = res, !.ehold = NoChunk]
    /\ s_pipe' = [s_pipe EXCEPT !.second.r = FALSE]

\* encrypt(encrypt_reader, output, &new_password, 1): the header goes out first
EncryptHeader ==
    /\ s_pc.e = "e_header"
    /\ IF s_in.ofail = "header"
       THEN EncryptEnds("e_err") /\ UNCHANGED s_out
       ELSE /\ s_pc' = [s_pc EXCEPT !.e = "e_read"]
            /\ s_out' = Append(s_out, "header")
            /\ UNCHANGED s_pipe
    /\ UNCHANGED <<s_in, s_seen>>
    /\ UNCHANGED <<vaultVars, cryptoVars>>

\* encrypt reads from encrypt_reader: a chunk, or end-of-stream when
\* encrypt_writer has been dropped
EncryptRead ==
    /\ s_pc.e = "e_read"
    /\ \/ /\ s_pipe.second.slot # NoChunk
          /\ s_pc' = [s_pc EXCEPT !.e = "e_write", !.ehold = s_pipe.second.slot]
          /\ s_pipe' = [s_pipe EXCEPT !.second.slot = NoChunk]
          /\ s_seen' = [s_seen EXCEPT !.consumed = Append(@, s_pipe.second.slot)]
       \/ /\ s_pipe.second.slot = NoChunk /\ ~s_pipe.second.w
          /\ s_pc' = [s_pc EXCEPT !.e = "e_final"]
          /\ UNCHANGED <<s_pipe, s_seen>>
    /\ UNCHANGED <<s_in, s_out>>
    /\ UNCHANGED <<vaultVars, cryptoVars>>

\* encrypt writes the encrypted chunk to the output
EncryptWrite ==
    /\ s_pc.e = "e_write"
    /\ IF s_in.ofail = "chunk"
       THEN EncryptEnds("e_err") /\ UNCHANGED s_out
       ELSE /\ s_pc' = [s_pc EXCEPT !.e = "e_read", !.ehold = NoChunk]
            /\ s_out' = Append(s_out, "chunk")
            /\ UNCHANGED s_pipe
    /\ UNCHANGED <<s_in, s_seen>>
    /\ UNCHANGED <<vaultVars, cryptoVars>>

\* end-of-stream: encrypt writes the trailer and the thread returns
EncryptFinal ==
    /\ s_pc.e = "e_final"
    /\ EncryptEnds("e_ok")
    /\ s_out' = Append(s_out, "trailer")
    /\ UNCHANGED <<s_in, s_seen>>
    /\ UNCHANGED <<vaultVars, cryptoVars>>

EncryptStep == EncryptHeader \/ EncryptRead \/ EncryptWrite \/ EncryptFinal

\* rotate_key_streaming returns res: its locals are dropped, decrypt_reader and
\* encrypt_writer among them; thread handles not joined are detached
CallerReturns(res) ==
    /\ s_pc' = [s_pc EXCEPT !.m = res, !.mhold = NoChunk]
    /\ s_pipe' = [s_pipe EXCEPT !.first.r = FALSE, !.second.w = FALSE,
                                !.second.slot = NoChunk]

\* io::copy(&mut decrypt_reader, &mut encrypt_writer): read a chunk or
\* end-of-stream from decrypt_reader
CopyRead ==
    /\ s_pc.m = "m_read"
    /\ \/ /\ s_pipe.first.slot # NoChunk
          /\ s_pc' = [s_pc EXCEPT !.m = "m_write", !.mhold = s_pipe.first.slot]
          /\ s_pipe' = [s_pipe EXCEPT !.first.slot = NoChunk]
          /\ s_seen' = [s_seen EXCEPT !.copied = Append(@, s_pipe.first.slot)]
       \/ /\ s_pipe.first.slot = NoChunk /\ ~s_pipe.first.w
          /\ s_pc' = [s_pc EXCEPT !.m = "m_join_decrypt"]
          /\ UNCHANGED <<s_pipe, s_seen>>
    /\ UNCHANGED <<s_in, s_out>>
    /\ UNCHANGED <<vaultVars, cryptoVars>>

\* io::copy writes the chunk into encrypt_writer; BrokenPipe ends the call
\* through  .map_err(CoreError::Io)?
CopyWrite ==
    /\ s_pc.m = "m_write"
    /\ IF s_pipe.second.r
       THEN /\ s_pipe' = [s_pipe EXCEPT !.second.slot = s_pc.mhold]
            /\ s_pc' = [s_pc EXCEPT !.m = "m_sending"]
       ELSE CallerReturns("ret_io")
    /\ UNCHANGED <<s_in, s_out, s_seen>>
    /\ UNCHANGED <<vaultVars, cryptoVars>>

\* the write returns: the encrypt thread took the chunk, or its reader is gone
CopyWritten ==
    /\ s_pc.m = "m_sending"
    /\ \/ /\ s_pipe.second.slot = NoChunk
          /\ s_pc' = [s_pc EXCEPT !.m = "m_read", !.mhold = NoChunk]
          /\ UNCHANGED s_pipe
       \/ /\ s_pipe.second.slot # NoChunk /\ ~s_pipe.second.r
          /\ CallerReturns("ret_io")
    /\ UNCHANGED <<s_in, s_out, s_seen>>
    /\ UNCHANGED <<vaultVars, cryptoVars>>

\* decrypt_thread.join().unwrap().map_err(CoreError::Crypto)?
JoinDecrypt ==
    /\ s_pc.m = "m_join_decrypt"
    /\ s_pc.d \in DecryptDone
    /\ IF s_pc.d = "d_ok"
       THEN s_pc' = [s_pc EXCEPT !.m = "m_join_encrypt"] /\ UNCHANGED s_pipe
       ELSE CallerReturns("ret_crypto")
    /\ UNCHANGED <<s_in, s_out, s_seen>>
    /\ UNCHANGED <<vaultVars, cryptoVars>>

\* encrypt_thread.join().unwrap().map_err(CoreError::Crypto)?;  Ok(new_key)
JoinEncrypt ==
    /\ s_pc.m = "m_join_encrypt"
    /\ s_pc.e \in EncryptDone
    /\ CallerReturns(IF s_pc.e = "e_ok" THEN "ret_ok" ELSE "ret_crypto")
    /\ UNCHANGED <<s_in, s_out, s_seen>>
    /\ UNCHANGED <<vaultVars, cryptoVars>>

CallerStep == CopyRead \/ CopyWrite \/ CopyWritten \/ JoinDecrypt \/ JoinEncrypt

NextStream == CallerStep \/ DecryptStep \/ EncryptStep

SpecStream == InitStream /\ [][NextStream]_vars

\* the operating system schedules every thread that can run
FairSpecStream ==
    SpecStream /\ WF_vars(CallerStep) /\ WF_vars(DecryptStep) /\ WF_vars(EncryptStep)

----------------------------------------------------------------------------
(* Properties of the streaming rotation                                    *)

\* a well-formed container, the right credential, an output that accepts writes
GoodRun == s_in.dfail = "ok" /\ s_in.ofail = "ok"

\* C9: a call with a well-formed input and the correct old credential
\* eventually returns the new key: both workers and the copy finish.
C9_GoodRunReturns == GoodRun ~> (s_pc.m = "ret_ok")

\* C10: whenever rotate_key_streaming has returned, with a key or an error,
\* the decrypt thread and the encrypt thread have both terminated.
C10_ReturnedMeansJoined ==
    s_pc.m \in Returned => (s_pc.d \in DecryptDone /\ s_pc.e \in EncryptDone)

\* the decrypt stage fails: bad credential, corrupt header, authentication failure
DecryptFails == s_in.dfail # "ok"

\* C11: when the decrypt stage fails its channel is closed, the copy and the
\* encrypt thread then terminate, and the call returns an error; such a run
\* never returns a key, whatever reached the output.
C11_DecryptFailureEndsRun ==
    /\ [](DecryptFails => s_pc.m # "ret_ok")
    /\ [](s_pc.d = "d_err" => ~s_pipe.first.w)
    /\ DecryptFails ~> (/\ s_pc.m \in {"ret_io", "ret_crypto"}
                        /\ s_pc.d = "d_err"
                        /\ s_pc.e \in EncryptDone)

\* an authentication failure after data went through: the call has returned
\* Err(Crypto) and the encrypt thread has finished a whole container
C11_Witness ==
    /\ s_in.dfail = "mac" /\ s_in.n > 0
    /\ s_pc.m = "ret_crypto" /\ s_pc.d = "d_err" /\ s_pc.e = "e_ok"
    /\ Len(s_out) = s_in.n + 2

\* chunks the decrypt stage has passed to write, the one in a blocked write included
Offered == IF s_pc.d = "d_sending" THEN s_pc.i ELSE s_pc.i - 1

InputChunks == [k \in 1..s_in.n |-> k]

\* the output is a whole container over every chunk of the input
OutputComplete ==
    s_out = <<"header">> \o [k \in 1..s_in.n |-> "chunk"] \o <<"trailer">>

\* C13: with a well-formed input and the correct old credential the encrypt
\* stage consumes exactly the chunks the decrypt stage emitted, in order, and
\* the output becomes a whole container over them, so that it decrypts under
\* the new key to the plaintext of the input.
C13_OutputMatchesInput ==
    GoodRun ~> (/\ s_seen.emitted = InputChunks
                /\ s_seen.consumed = s_seen.emitted
                /\ OutputComplete)

----------------------------------------------------------------------------
(* The crypto functions, each applied to drawn arguments                   *)

\* the password a person chose for a file encrypted before the vault
LegacyCred == <<"pw", 1>>

\* RandomFileKey32::random_hex(): a key no earlier call has produced
FreshKey == MaxKeys + 1

\* a container of format version ver around b
Container(b, ver, pw) ==
    [b EXCEPT !.layers = <<Layer(ver, pw, RANDOM_KEY_KDF_ITERATIONS)>> \o b.layers]

\* the bytes of c cut short after the header
Truncated(c) == [c EXCEPT !.kind = "partial"]

WellFormed ==
    {Container(Data(p), ver, pw) :
        p \in Plain, ver \in 0..3,
        pw \in {to_hex(k) : k \in 1..MaxKeys} \cup {LegacyCred}}

\* the ciphertext arguments: containers of every format version, containers
\* cut short, and bytes that are no container
Ciphertexts == WellFormed \cup {Truncated(c) : c \in WellFormed} \cup {Data(p) : p \in Plain}

Credentials == {to_hex(k) : k \in 1..MaxKeys} \cup {LegacyCred, BadCred}

\* a conversion that writes its output under a newly generated key
convert_to_v3_FreshKey(c, pw, iter) ==
    IF CanDecrypt(c, pw)
    THEN [ok |-> TRUE, ct |-> encrypt(decrypt_to_vec(c, pw).pt, to_hex(FreshKey), iter),
          key |-> 0]
    ELSE [ok |-> FALSE, ct |-> Absent, key |-> 0]

\* aescrypt_rs::convert::convert_to_v3(input, output, password, iterations):
\* opens the container with the password and writes a version-3 container
\* under the same password
convert_to_v3(c, pw, iter) ==
    IF CanDecrypt(c, pw)
    THEN [ok |-> TRUE, ct |-> encrypt(decrypt_to_vec(c, pw).pt, pw, iter), key |-> 0]
    ELSE [ok |-> FALSE, ct |-> Absent, key |-> 0]

\* ciphertext.get(..5) == Some(AESCRYPT_V3_HEADER.as_slice())
HasV3Header(c) == c.kind # "absent" /\ c.layers # <<>> /\ Head(c.layers).ver = 3

\* an ensure_v3 without the header test
ensure_v3_AlwaysConverts(c, pw) == convert_to_v3(c, pw, RANDOM_KEY_KDF_ITERATIONS)

\* ensure_v3(ciphertext, &password): pass through, or convert_to_v3
ensure_v3(c, pw) ==
    IF HasV3Header(c)
    THEN [ok |-> TRUE, ct |-> c, key |-> 0]
    ELSE convert_to_v3(c, pw, RANDOM_KEY_KDF_ITERATIONS)

\* upgrade_from_legacy of src/core/crypto/legacy.rs: convert_to_v3 under the
\* legacy password, then encrypt_to_vec of its output under the new key
core_upgrade_from_legacy(c, legacy_pw, k) ==
    LET v == convert_to_v3(c, legacy_pw, RANDOM_KEY_KDF_ITERATIONS) IN
    IF v.ok
    THEN [ok |-> TRUE, ct |-> encrypt_to_vec(v.ct, to_hex(k)), key |-> k]
    ELSE [ok |-> FALSE, ct |-> Absent, key |-> 0]

\* what a call returned: Ok with its values, or Err(err)
Ok(ct, key) == [ok |-> TRUE, err |-> "", ct |-> ct, key |-> key, size |-> 0, prev |-> 0]
Err(e) == [ok |-> FALSE, err |-> e, ct |-> Absent, key |-> 0, size |-> 0, prev |-> 0]

\* Ok(n) of encrypt_file / decrypt_file; prev is what the call before returned
OkSize(n, before) == [Ok(Absent, 0) EXCEPT !.size = n, !.prev = before.size]

\* bytes.len(): every layer of encryption adds to the length
ByteLen(b) == PlainSize(b.pt) + Len(b.layers)

\* Result of rotate_key / upgrade_from_legacy as the caller sees it
AsResult(r) == IF r.ok THEN Ok(r.ct, r.key) ELSE Err("Crypto")

InitCrypto ==
    /\ VaultIdle
    /\ StreamIdle
    /\ c_in \in [ct : Ciphertexts, cred : Credentials, out : {Absent, Data("pA")}]
    /\ c_op = "none"
    /\ c_res = Err("")
    /\ c_fs = [inp |-> c_in.ct, enc |-> Absent, out |-> c_in.out]

Applied(op, res) ==
    /\ c_op = "none"
    /\ c_op' = op
    /\ c_res' = res
    /\ UNCHANGED <<c_in, c_fs>>
    /\ UNCHANGED <<vaultVars, streamVars>>

\* rotate_key(&ciphertext, &old_password)
CallRotateKey ==
    /\ c_in.ct.kind # "absent"
    /\ Applied("rotate_key", AsResult(rotate_key(c_in.ct, c_in.cred, FreshKey)))

\* upgrade_from_legacy(ciphertext, &old_password) of src/crypto/legacy.rs
CallUpgradeFromLegacy ==
    /\ c_in.ct.kind # "absent"
    /\ Applied("upgrade_from_legacy",
               AsResult(upgrade_from_legacy(c_in.ct, c_in.cred, FreshKey)))

\* upgrade_from_legacy(ciphertext, &legacy_password) of src/core/crypto/legacy.rs
CallCoreUpgradeFromLegacy ==
    /\ c_in.ct.kind # "absent"
    /\ Applied("core_upgrade_from_legacy",
               AsResult(core_upgrade_from_legacy(c_in.ct, c_in.cred, FreshKey)))

\* decrypt_to_vec(&ciphertext, &password)
CallDecryptToVec ==
    /\ c_in.ct.kind # "absent"
    /\ LET d == decrypt_to_vec(c_in.ct, c_in.cred) IN
         Applied("decrypt_to_vec", IF d.ok THEN Ok(d.pt, 0) ELSE Err("Crypto"))

\* ensure_v3(ciphertext, &password)
CallEnsureV3 ==
    /\ c_in.ct.kind # "absent"
    /\ Applied("ensure_v3", AsResult(ensure_v3(c_in.ct, c_in.cred)))

\* decrypt_to_vec(encrypt_to_vec(&plaintext, &password), &password)
CallRoundTrip ==
    /\ c_in.ct.kind = "data"
    /\ LET d == decrypt_to_vec(encrypt_to_vec(c_in.ct, c_in.cred), c_in.cred) IN
         Applied("roundtrip", IF d.ok THEN Ok(d.pt, 0) ELSE Err("Crypto"))

\* std::fs::write(path, bytes): the file is created or truncated, then written
FsWrite(fs, path, bytes, io_ok) ==
    [fs EXCEPT ![path] = IF io_ok THEN bytes ELSE Partial]

\* a file function whose output is created before the crypto step
FileCall_CreateFirst(op, from, to, r) ==
    /\ c_op' = op
    /\ \E io_ok \in BOOLEAN :
         IF c_fs[from].kind = "absent"
         THEN c_res' = Err("Io") /\ UNCHANGED c_fs
         ELSE IF ~r.ok
         THEN c_res' = Err("Crypto") /\ c_fs' = FsWrite(c_fs, to, r.pt, FALSE)
         ELSE /\ c_fs' = FsWrite(c_fs, to, r.pt, io_ok)
              /\ c_res' = IF io_ok THEN OkSize(ByteLen(r.len), c_res) ELSE Err("Io")
    /\ UNCHANGED c_in
    /\ UNCHANGED <<vaultVars, streamVars>>

\* encrypt_file / decrypt_file: read `from`, apply the crypto step (r = its
\* result on the bytes read, r.len the plaintext), write `to`, return the
\* plaintext length
FileCall(op, from, to, r) ==
    /\ c_op' = op
    /\ \E io_ok \in BOOLEAN :
         IF c_fs[from].kind = "absent"
         THEN c_res' = Err("Io") /\ UNCHANGED c_fs
         ELSE IF ~r.ok
         THEN c_res' = Err("Crypto") /\ UNCHANGED c_fs
         ELSE /\ c_fs' = FsWrite(c_fs, to, r.pt, io_ok)
              /\ c_res' = IF io_ok THEN OkSize(ByteLen(r.len), c_res) ELSE Err("Io")
    /\ UNCHANGED c_in
    /\ UNCHANGED <<vaultVars, streamVars>>

\* encrypt_file(inp, enc, &password)
CallEncryptFile ==
    /\ c_op = "none" /\ c_in.ct.kind = "data"
    /\ FileCall("encrypt_file", "inp", "enc",
                [ok |-> TRUE, pt |-> encrypt_to_vec(c_fs["inp"], c_in.cred),
                 len |-> c_fs["inp"]])

\* decrypt_file(inp, out, &password) on the drawn ciphertext
CallDecryptFile ==
    /\ c_op = "none"
    /\ LET d == decrypt_to_vec(c_fs["inp"], c_in.cred) IN
         FileCall("decrypt_file", "inp", "out", [ok |-> d.ok, pt |-> d.pt, len |-> d.pt])

\* decrypt_file(enc, out, &password) on what encrypt_file wrote
CallDecryptEncrypted ==
    /\ c_op = "encrypt_file" /\ c_res.ok
    /\ LET d == decrypt_to_vec(c_fs["enc"], c_in.cred) IN
         FileCall("roundtrip_file", "enc", "out", [ok |-> d.ok, pt |-> d.pt, len |-> d.pt])

\* upgrade_from_legacy(inp, out, &legacy_password) of src/legacy/upgrade.rs:
\* File::open(inp), File::create(out), then convert_to_v3 under the NEW
\* password; legacy_password is not used
CallLegacyUpgradeFile ==
    /\ c_op = "none"
    /\ c_op' = "legacy_upgrade_file"
    /\ \E io_ok \in BOOLEAN :
         IF ~io_ok
         THEN c_res' = Err("Io") /\ UNCHANGED c_fs
         ELSE LET v == convert_to_v3(c_fs["inp"], to_hex(FreshKey), FILE_KDF_ITERATIONS) IN
              IF v.ok
              THEN c_res' = Ok(Absent, FreshKey) /\ c_fs' = FsWrite(c_fs, "out", v.ct, TRUE)
              ELSE c_res' = Err("Crypto") /\ c_fs' = FsWrite(c_fs, "out", Absent, FALSE)
    /\ UNCHANGED c_in
    /\ UNCHANGED <<vaultVars, streamVars>>

\* rotate_key(inp, out, &current_key_hex) of src/rotation/v3.rs: decrypt into
\* a temporary file, then File::create(out) and encrypt into it
CallRotateKeyFile ==
    /\ c_op = "none"
    /\ c_op' = "rotate_key_file"
    /\ \E io_ok \in BOOLEAN :
         LET d == decrypt_to_vec(c_fs["inp"], c_in.cred) IN
         IF ~d.ok
         THEN c_res' = Err("Crypto") /\ UNCHANGED c_fs
         ELSE /\ c_fs' = FsWrite(c_fs, "out",
                             encrypt(d.pt, to_hex(FreshKey), FILE_KDF_ITERATIONS), io_ok)
              /\ c_res' = IF io_ok THEN Ok(Absent, FreshKey) ELSE Err("Io")
    /\ UNCHANGED c_in
    /\ UNCHANGED <<vaultVars, streamVars>>

NextCrypto ==
    \/ CallRotateKey
    \/ CallRotateKeyFile
    \/ CallUpgradeFromLegacy
    \/ CallCoreUpgradeFromLegacy
    \/ CallLegacyUpgradeFile
    \/ CallEnsureV3
    \/ CallDecryptToVec
    \/ CallRoundTrip
    \/ CallEncryptFile
    \/ CallDecryptFile
    \/ CallDecryptEncrypted

SpecCrypto == InitCrypto /\ [][NextCrypto]_vars

----------------------------------------------------------------------------
(* Properties of the crypto functions                                      *)

\* C14: for every container of the target or a legacy version that decrypts
\* under the credential, rotate_key returns a target-version container that
\* decrypts under the returned key to the same plaintext, and the returned
\* key is not the old credential.
C14_RotatePreservesPlaintext ==
    (c_op = "rotate_key" /\ CanDecrypt(c_in.ct, c_in.cred)) =>
        /\ c_res.ok
        /\ IsV3(c_res.ct)
        /\ decrypt_to_vec(c_res.ct, to_hex(c_res.key)) = decrypt_to_vec(c_in.ct, c_in.cred)
        /\ to_hex(c_res.key) # c_in.cred

\* C15: decrypt_to_vec(encrypt_to_vec(P, K), K) is Ok(P) for every plaintext P
\* and key K, and encrypt_file followed by decrypt_file writes P back and
\* both report the length of P.
C15_RoundTrip ==
    /\ c_op = "roundtrip" => (c_res.ok /\ c_res.ct = c_in.ct)
    /\ (c_op = "roundtrip_file" /\ c_res.ok) =>
          /\ c_fs["out"] = c_fs["inp"]
          /\ c_res.size = c_res.prev
          /\ c_res.size = ByteLen(c_fs["inp"])

\* a file went through encrypt_file and decrypt_file under a random key
C15_Witness ==
    /\ c_op = "roundtrip_file" /\ c_res.ok
    /\ c_in.cred = to_hex(1)
    /\ c_fs["inp"] = Data("pB") /\ c_fs["out"] = Data("pB")
    /\ IsV3(c_fs["enc"])

\* a container of a version before the target version
IsLegacy(c) == IsContainer(c) /\ Head(c.layers).ver < 3

\* C16: for a legacy container that opens under the legacy credential,
\* upgrade_from_legacy returns a fresh key and a target-version container that
\* is one layer of encryption under that key over the original plaintext.
C16_UpgradeIsOneLayer ==
    (/\ c_op \in {"upgrade_from_legacy", "core_upgrade_from_legacy"}
     /\ IsLegacy(c_in.ct) /\ CanDecrypt(c_in.ct, c_in.cred)) =>
        /\ c_res.ok
        /\ c_res.key = FreshKey
        /\ IsV3(c_res.ct)
        /\ c_res.ct = encrypt_to_vec(decrypt_to_vec(c_in.ct, c_in.cred).pt,
                                     to_hex(c_res.key))

\* C17: ensure_v3 returns a container that carries the target-version header
\* unchanged and without error, whatever the credential; applied to its own
\* output it returns that output.
C17_EnsureV3PassThrough ==
    c_op = "ensure_v3" =>
        /\ HasV3Header(c_in.ct) => (c_res.ok /\ c_res.ct = c_in.ct)
        /\ c_res.ok => AsResult(ensure_v3(c_res.ct, c_in.cred)) = c_res

\* a target-version container went through ensure_v3 with a credential that
\* does not open it
C17_Witness ==
    /\ c_op = "ensure_v3" /\ IsV3(c_in.ct) /\ c_in.cred = BadCred
    /\ c_res.ok /\ c_res.ct = c_in.ct

\* C18 as stated: ensure_v3 turns a legacy container into a target-version
\* container that a freshly generated key opens and the legacy credential
\* does not.
C18_OnlyFreshKeyOpens ==
    (c_op = "ensure_v3" /\ IsLegacy(c_in.ct) /\ CanDecrypt(c_in.ct, c_in.cred)) =>
        /\ c_res.ok /\ IsV3(c_res.ct)
        /\ CanDecrypt(c_res.ct, to_hex(FreshKey))
        /\ ~CanDecrypt(c_res.ct, c_in.cred)

\* C18: ensure_v3 turns a legacy container that opens under the credential
\* into a target-version container that opens under that same credential, to
\* the same plaintext; no key is generated, and with a credential that does
\* not open the legacy container the call fails with a crypto error.
C18_SameCredentialOpens ==
    (c_op = "ensure_v3" /\ IsLegacy(c_in.ct)) =>
        IF CanDecrypt(c_in.ct, c_in.cred)
        THEN /\ c_res.ok /\ IsV3(c_res.ct) /\ c_res.key = 0
             /\ decrypt_to_vec(c_res.ct, c_in.cred) = decrypt_to_vec(c_in.ct, c_in.cred)
             /\ ~CanDecrypt(c_res.ct, to_hex(FreshKey))
        ELSE ~c_res.ok /\ c_res.err = "Crypto"

\* a legacy container under a person's password went through ensure_v3
C18_Witness ==
    /\ c_op = "ensure_v3" /\ IsLegacy(c_in.ct) /\ c_in.cred = LegacyCred
    /\ c_res.ok /\ IsV3(c_res.ct) /\ CanDecrypt(c_res.ct, LegacyCred)

\* C19: with a credential the container was not encrypted under, or a
\* malformed container, decrypt_to_vec returns Err(Crypto) and no plaintext,
\* and decrypt_file returns that error and leaves the output path as it was.
C19_DecryptFailureGivesNothing ==
    ~CanDecrypt(c_in.ct, c_in.cred) =>
        /\ c_op = "decrypt_to_vec" =>
              (~c_res.ok /\ c_res.err = "Crypto" /\ c_res.ct = Absent)
        /\ c_op = "decrypt_file" =>
              (~c_res.ok /\ c_res.err = "Crypto" /\ c_fs["out"] = c_in.out)

\* decrypt_file failed on a whole container under the wrong password, and the
\* file that was at the output path is still there
C19_Witness ==
    /\ c_op = "decrypt_file" /\ IsV3(c_in.ct) /\ c_in.cred = BadCred
    /\ c_res.err = "Crypto"
    /\ c_in.out = Data("pA") /\ c_fs["out"] = Data("pA")

\* C20: when the crypto step of a file rotation or of a legacy upgrade fails
\* (wrong credential, corrupt or unsupported container), the file at the
\* output path holds the bytes it held before the call.
C20_CryptoFailureChangesNothing ==
    (c_op \in {"rotate_key_file", "legacy_upgrade_file"} /\ c_res.err = "Crypto") =>
        c_fs = [inp |-> c_in.ct, enc |-> Absent, out |-> c_in.out]

----------------------------------------------------------------------------
(* Properties of add_file, of concurrent rotations and of the key history  *)

\* process p has returned from op with result res
Finished(p, op, res) == pc[p] = "idle" /\ last[p].op = op /\ last[p].res = res

\* the content was never added: no key and no index row for its file_id
NeverAdded(snap, fid) ==
    /\ HistoryOf(snap.kh, fid) = {}
    /\ ~\E f \in snap.files : f.file_id = fid

\* C21: add_file on content that was never added returns an entry with the
\* plaintext's size and name and file_id = content_hash = its content
\* address; key_history then holds exactly one row for the file_id (version 1,
\* 'initial', not superseded, the generated key), and the file at the
\* destination has the target-version header and decrypts under that key to
\* the plaintext.
C21_AddFileResult ==
    \A p \in DOMAIN pc :
        (Finished(p, "add", "Ok") /\ NeverAdded(pre[p], last[p].fid)) =>
            LET fid == last[p].fid IN
            /\ fid = blake3_hex(PlainOf(fid))
            /\ \E f \in files :
                 /\ f.file_id = fid /\ f.content_hash = fid
                 /\ f.display_name = PlainOf(fid)
                 /\ f.plaintext_size = PlainSize(PlainOf(fid))
                 /\ f.current_path = PathOf(fid)
            /\ \E r \in key_history :
                 /\ HistoryOf(key_history, fid) = {r}
                 /\ r.version = 1 /\ r.note = "initial" /\ r.superseded_at = NULL
                 /\ r.password_blob = last[p].key
                 /\ HasV3Header(disk[PathOf(fid)])
                 /\ decrypt_to_vec(disk[PathOf(fid)], to_hex(r.password_blob))
                      = [ok |-> TRUE, pt |-> Data(PlainOf(fid))]

\* add_file has returned Ok for content that had no key and no index row
C21_Witness ==
    \E p \in DOMAIN pc :
        /\ Finished(p, "add", "Ok") /\ NeverAdded(pre[p], last[p].fid)
        /\ last[p].fid = blake3_hex("pA")
        /\ IsV3(disk[PathOf(last[p].fid)])

\* what an add_file attempt leaves that failed after one of its steps: the
\* file encrypted at the destination and, at most, the key stored as version 1
LeftByFailedAdd(snap, fid) ==
    /\ snap.disk[PathOf(fid)].kind # "absent"
    /\ Cardinality(HistoryOf(snap.kh, fid)) <= 1
    /\ \A r \in HistoryOf(snap.kh, fid) :
         r.version = 1 /\ r.note = "initial" /\ r.superseded_at = NULL

\* C22: once a retry of add_file succeeds after an attempt that failed after
\* any of its steps, there is one index row for the file_id, key_history has
\* exactly one row that is not superseded, and that key decrypts the file at
\* the destination to the plaintext.
C22_RetryIsSafe ==
    \A p \in DOMAIN pc :
        (Finished(p, "add", "Ok") /\ LeftByFailedAdd(pre[p], last[p].fid)) =>
            LET fid == last[p].fid IN
            /\ Cardinality({f \in files : f.file_id = fid}) = 1
            /\ Cardinality(CurrentRows(key_history, fid)) = 1
            /\ \A r \in CurrentRows(key_history, fid) :
                 decrypt_to_vec(disk[PathOf(fid)], to_hex(r.password_blob))
                   = [ok |-> TRUE, pt |-> Data(PlainOf(fid))]

----------------------------------------------------------------------------
(* Two callers, each with its own connections, rotating the files of a     *)
(* vault that holds both files with one key version each                   *)

ConcProcs == {"p1", "p2"}

InitConc ==
    /\ keys = LegacyKeys(FileIds)
    /\ key_history = Backfill({}, LegacyKeys(FileIds))
    /\ disk = [q \in Paths |->
                 LET f == CHOOSE f \in FileIds : PathOf(f) = q IN
                 encrypt_to_vec(Data(PlainOf(f)), to_hex(LegacyKey(f)))]
    /\ files = {[file_id |-> f, content_hash |-> f, display_name |-> PlainOf(f),
                 current_path |-> PathOf(f), plaintext_size |-> PlainSize(PlainOf(f)),
                 created_at |-> 1, rotated_at |-> NULL] : f \in FileIds}
    /\ track = [f \in FileIds |-> Dirty]
    /\ schema = "current"
    /\ now = 2
    /\ nextKey = 1
    /\ pc = [p \in ConcProcs |-> "idle"]
    /\ loc = [p \in ConcProcs |-> IdleLoc]
    /\ tx = [p \in ConcProcs |-> NoTx]
    /\ last = [p \in ConcProcs |-> NoLast]
    /\ pre = [p \in ConcProcs |-> [disk |-> [q \in Paths |-> Absent], kh |-> {},
                                   keys |-> {}, files |-> {}]]
    /\ StreamIdle
    /\ CryptoIdle

\* the caller's one call of
\* rotate_key_in_vault(conn, index_conn, path, file_id, cred, None)
ConcRotateCall(p) ==
    /\ pc[p] = "idle" /\ last[p] = NoLast
    /\ \E fid \in FileIds :
         \E cred \in Creds(PathOf(fid)) :
            loc' = [loc EXCEPT ![p] = [IdleLoc EXCEPT !.op = "rotate", !.fid = fid,
                        !.path = PathOf(fid), !.cred = cred]]
    /\ pre' = [pre EXCEPT ![p] = Snapshot]
    /\ pc' = [pc EXCEPT ![p] = "rot_read"]
    /\ last' = [last EXCEPT ![p] = NoLast]
    /\ UNCHANGED <<disk, key_history, keys, files, schema, now, nextKey, tx, track>>
    /\ UNCHANGED <<streamVars, cryptoVars>>

ConcRotation(p) ==
    \/ ConcRotateCall(p) \/ RotRead(p) \/ RotCrypto(p) \/ RotWriteOpen(p)
    \/ RotWriteAll(p) \/ RotBegin(p) \/ RotUpdate(p) \/ RotInsert(p)
    \/ RotCommit(p) \/ RotIndex(p)

NextConc == \E p \in ConcProcs : ConcRotation(p)

SpecConc == InitConc /\ [][NextConc]_vars

----------------------------------------------------------------------------
(* Properties of concurrent rotations                                      *)

\* caller p's key-history transaction has committed
Committed(p) ==
    \/ pc[p] = "rot_index"
    \/ pc[p] = "idle" /\ last[p].op = "rotate" /\ last[p].at = "rot_index"

\* C23: two concurrent rotations of one file_id never commit the same version:
\* no version of a file is held by two rows, no committed row is replaced by
\* the other rotation's, the versions stay 1..n and exactly the highest one is
\* current
C23_OneCommitPerVersion ==
    /\ \A r1, r2 \in key_history :
         (r1.file_id = r2.file_id /\ r1.version = r2.version) => r1 = r2
    /\ \A fid \in FileIds :
         /\ {r.version : r \in HistoryOf(key_history, fid)} = 1..MaxVersion(key_history, fid)
         /\ \A r \in HistoryOf(key_history, fid) :
              (r.superseded_at = NULL) <=> (r.version = MaxVersion(key_history, fid))
    /\ \A p \in DOMAIN pc :
         /\ pc[p] = "rot_index" =>
              \E r \in HistoryOf(key_history, loc[p].fid) :
                 r.password_blob = loc[p].key /\ r.version = loc[p].ver + 1
         /\ Finished(p, "rotate", "Ok") =>
              \E r \in HistoryOf(key_history, last[p].fid) : r.password_blob = last[p].key
    /\ \A p, q \in DOMAIN pc :
         (p # q /\ Committed(p) /\ Committed(q) /\ last[p].fid = last[q].fid
              /\ pc[p] = "idle" /\ pc[q] = "idle")
           => MaxVersion(key_history, last[p].fid) = 3

C23_Witness ==
    \E p, q \in DOMAIN pc :
       /\ p # q
       /\ Finished(p, "rotate", "Ok") /\ Finished(q, "rotate", "Ok")
       /\ last[p].fid = last[q].fid
       /\ pre[q].kh = pre[p].kh

\* caller q is inside a rotation of another file than caller p's
RotatesOtherFile(p, q) ==
    /\ p # q
    /\ pc[p] # "idle" /\ pc[q] # "idle"
    /\ loc[p].fid # loc[q].fid

\* C24: a rotation of file A is neither made to fail nor blocked by a
\* concurrent rotation of a distinct file B: when A's rotation is about to run
\* its UPDATE, B's rotation does not hold the write lock that makes the UPDATE
\* fail, and when A's rotation is about to commit, B's rotation does not hold
\* a lock the commit has to wait for
C24_DistinctFilesIndependent ==
    \A p, q \in DOMAIN pc :
       RotatesOtherFile(p, q) =>
          /\ pc[p] = "rot_update" => ~(tx[q].open /\ pc[q] \in {"rot_insert", "rot_commit"})
          /\ pc[p] = "rot_commit" => ~tx[q].open

----------------------------------------------------------------------------
(* Properties of a rotation that ends after its commit                     *)

\* caller p's rotation failed, or its process died, after tx.commit() had
\* returned and before the index update was done
FailedAfterCommit(p) ==
    /\ pc[p] = "idle"
    /\ last[p].op = "rotate" /\ last[p].at = "rot_index"
    /\ last[p].res \in {"Sql", "crash"}

\* the same key_history row, whatever its superseded_at
SameRow(r1, r2) ==
    /\ r1.file_id = r2.file_id /\ r1.version = r2.version
    /\ r1.password_blob = r2.password_blob
    /\ r1.created_at = r2.created_at /\ r1.note = r2.note

\* the keys marked current in snapshot snap decrypt the ciphertext it holds
CurrentKeyDecrypts(snap, fid) ==
    /\ CurrentRows(snap.kh, fid) # {}
    /\ \A r \in CurrentRows(snap.kh, fid) :
         CanDecrypt(snap.disk[PathOf(fid)], to_hex(r.password_blob))

\* C25: when a rotation fails or dies after the key-history commit and before
\* the end of the rotated_at update, the key marked current in key_history
\* still decrypts the ciphertext on disk (as it did before the call), it is
\* the key of the keys row, every key_history row of before the call is still
\* there, and the metadata index is as it was before the call (rotated_at lags)
C25_CommittedRotationSurvives ==
    \A p \in DOMAIN pc :
       (FailedAfterCommit(p) /\ CurrentKeyDecrypts(pre[p], last[p].fid)) =>
          /\ CurrentKeyDecrypts(Snapshot, last[p].fid)
          /\ \A r \in CurrentRows(key_history, last[p].fid) :
               /\ r.version = MaxVersion(pre[p].kh, last[p].fid) + 1
               /\ \E k \in keys : k.file_id = r.file_id /\ k.password_blob = r.password_blob
          /\ \A r \in pre[p].kh : \E r2 \in key_history : SameRow(r, r2)
          /\ files = pre[p].files

C25_Witness ==
    \E p \in DOMAIN pc :
       /\ FailedAfterCommit(p) /\ last[p].res = "Sql"
       /\ CurrentKeyDecrypts(pre[p], last[p].fid)
       /\ MaxVersion(key_history, last[p].fid) = 2
       /\ \E f \in files : f.file_id = last[p].fid /\ f.rotated_at = NULL

----------------------------------------------------------------------------
(* The key history over time                                               *)

\* C26: key_history is append-only: every step keeps every row, with its
\* file_id, version, key_blob, created_at and note, and keeps a superseded_at
\* that is already a timestamp; only a null superseded_at may change
C26_AppendOnly ==
    [][\A r \in key_history :
          \E r2 \in key_history' :
             /\ SameRow(r, r2)
             /\ r.superseded_at # NULL => r2.superseded_at = r.superseded_at]_vars

C26_Witness ==
    \E r1, r2, r3 \in key_history :
       /\ r1.file_id = r2.file_id /\ r2.file_id = r3.file_id
       /\ r1.version = 1 /\ r2.version = 2 /\ r3.version = 3
       /\ r1.superseded_at # NULL /\ r2.superseded_at # NULL
       /\ r1.superseded_at # r2.superseded_at
       /\ r3.superseded_at = NULL

----------------------------------------------------------------------------
(* KDF iteration counts                                                    *)

\* a credential that is the hex form of a generated 256-bit key
IsRandomKey(pw) == pw[1] = "hex"

\* the iteration count of the container layer the call wrote last
WrittenIterations(c) == Head(c.layers).iter

\* C27: an encryption under a freshly generated random key uses the minimal
\* KDF iteration count, an encryption under a human password uses the high
\* one, and the two counts differ
C27_IterationsFollowCredential ==
    /\ RANDOM_KEY_KDF_ITERATIONS # FILE_KDF_ITERATIONS
    /\ (c_op \in {"rotate_key", "upgrade_from_legacy", "core_upgrade_from_legacy"}
            /\ c_res.ok)
         => WrittenIterations(c_res.ct) = RANDOM_KEY_KDF_ITERATIONS
    /\ (c_op \in {"legacy_upgrade_file", "rotate_key_file"} /\ c_res.ok)
         => WrittenIterations(c_fs["out"]) = RANDOM_KEY_KDF_ITERATIONS
    /\ (c_op = "ensure_v3" /\ c_res.ok /\ ~HasV3Header(c_in.ct)
            /\ ~IsRandomKey(c_in.cred))
         => WrittenIterations(c_res.ct) = FILE_KDF_ITERATIONS

----------------------------------------------------------------------------
(* Error values                                                            *)

\* why rotate_key(ct, cred) fails: the bytes are no well-formed container, or
\* they are one and the credential does not open it
CauseOfFailure(ct, cred) ==
    IF ~IsContainer(ct) THEN "container"
    ELSE IF ~CanDecrypt(ct, cred) THEN "credential"
    ELSE "none"

\* C28: the error value tells the causes apart: the error a failed rotate_key
\* returned (the one rotate_key_in_vault passes on) is returned by no call that
\* fails for another cause
C28_ErrorTellsCause ==
    (c_op = "rotate_key" /\ ~c_res.ok) =>
       \A ct \in Ciphertexts, cred \in Credentials :
          LET r == AsResult(rotate_key(ct, cred, FreshKey)) IN
          (~r.ok /\ CauseOfFailure(ct, cred) # CauseOfFailure(c_in.ct, c_in.cred))
             => r.err # c_res.err

----------------------------------------------------------------------------
(* Properties of a rotation that returns Ok                                *)

\* the plaintext a container holds: what decrypt_to_vec returns under the
\* password that opens it
PlaintextOf(c) == decrypt_to_vec(c, Head(c.layers).pw).pt

\* C29: when rotate_key_in_vault returns Ok(new_key), new_key is the key_blob of
\* the current key_history row and of the keys row of the file, the file on
\* disk decrypts with new_key to the plaintext it held before the call, and
\* the key that opened it before the call no longer does
C29_RotationResult ==
    \A p \in DOMAIN pc :
       Finished(p, "rotate", "Ok") =>
          LET fid == last[p].fid
              before == pre[p].disk[PathOf(fid)]
              after == disk[PathOf(fid)] IN
          /\ CurrentRows(key_history, fid) # {}
          /\ \A r \in CurrentRows(key_history, fid) : r.password_blob = last[p].key
          /\ \E k \in keys : k.file_id = fid
          /\ \A k \in keys : k.file_id = fid => k.password_blob = last[p].key
          /\ decrypt_to_vec(after, to_hex(last[p].key)).ok
          /\ decrypt_to_vec(after, to_hex(last[p].key)).pt = PlaintextOf(before)
          /\ ~CanDecrypt(after, Head(before.layers).pw)

----------------------------------------------------------------------------
(* Properties of store_key_blob                                            *)

\* C30: store_key_blob on a file_id without history inserts version 1 with
\* note 'initial'; on a file_id whose highest version is m it inserts version
\* m+1 with note 'update'; the new row holds the given key with superseded_at
\* null and is the only change to key_history; a failed call leaves the key
\* store as it was
C30_StoreKeyBlob ==
    \A p \in DOMAIN pc :
       /\ Finished(p, "store", "Ok") =>
            LET m == MaxVersion(pre[p].kh, last[p].fid) IN
            /\ pre[p].kh \subseteq key_history
            /\ Cardinality(key_history \ pre[p].kh) = 1
            /\ \A r \in key_history \ pre[p].kh :
                 /\ r.file_id = last[p].fid
                 /\ r.version = m + 1
                 /\ r.note = (IF m = 0 THEN "initial" ELSE "update")
                 /\ r.password_blob = last[p].key
                 /\ r.superseded_at = NULL
       /\ Finished(p, "store", "Sql") =>
            /\ key_history = pre[p].kh
            /\ keys = pre[p].keys

C30_Witness ==
    \E p \in DOMAIN pc :
       /\ Finished(p, "store", "Ok")
       /\ MaxVersion(pre[p].kh, last[p].fid) = 1
       /\ \E r \in key_history :
            r.file_id = last[p].fid /\ r.version = 2 /\ r.note = "update"

----------------------------------------------------------------------------
(* Properties of open_vault_db                                             *)

\* C31: open_vault_db backfills idempotently: the open that finds a keys-only
\* store creates, for every file_id of keys without history, exactly one row
\* (version 1, the keys row's blob and created_at, superseded_at null), leaves
\* every other history row and the keys table as they are; and in every state
\* of the opened store a further open changes nothing in key_history
C31_BackfillIdempotent ==
    [][/\ (schema = "legacy" /\ schema' = "current") =>
            /\ keys' = keys
            /\ key_history \subseteq key_history'
            /\ \A r \in key_history' \ key_history :
                  \E k \in keys : k.file_id = r.file_id
            /\ \A k \in keys :
                  IF HistoryOf(key_history, k.file_id) = {}
                  THEN HistoryOf(key_history', k.file_id) =
                          {[file_id |-> k.file_id, version |-> 1,
                            password_blob |-> k.password_blob,
                            created_at |-> k.created_at,
                            superseded_at |-> NULL, note |-> "NULL"]}
                  ELSE HistoryOf(key_history', k.file_id) =
                          HistoryOf(key_history, k.file_id)
       /\ schema' = "current" => Backfill(key_history', keys') = key_history'
      ]_vars

C31_Witness ==
    /\ schema = "current"
    /\ \E r \in key_history :
         /\ r.version = 1 /\ r.note = "NULL"
         /\ r.password_blob = LegacyKey(r.file_id)
         /\ r.created_at = 1
         /\ r.superseded_at # NULL

----------------------------------------------------------------------------
(* Rotation may repeat                                                     *)

\* the file_id went through one add_file followed by successful rotations only
CleanFile(fid) == ~track[fid].dirty /\ track[fid].adds = 1

\* caller p rotates with the key the store reported as current at its call
GivenCurrentKey(p) ==
    /\ Rotating(p)
    /\ \E k \in pre[p].keys :
         k.file_id = loc[p].fid /\ loc[p].cred = to_hex(k.password_blob)

\* C32: no state reached by add_file and successful rotations is terminal:
\* there the file on disk is a container that the key of the keys row opens
\* and the history has its highest version current, so a rotation given that
\* key finds its file, decrypts it and finds a current version (it can only
\* fail for a storage error), and when it returns Ok the history is that of
\* before with version n superseded and version n+1, holding the new key,
\* current
C32_NoTerminalState ==
    \A fid \in FileIds :
       CleanFile(fid) =>
          /\ (\A p \in DOMAIN pc : pc[p] = "idle") =>
                /\ schema = "current"
                /\ IsV3(disk[PathOf(fid)])
                /\ \E k \in keys : k.file_id = fid
                /\ \A k \in keys :
                      k.file_id = fid =>
                         CanDecrypt(disk[PathOf(fid)], to_hex(k.password_blob))
                /\ MaxVersion(key_history, fid) >= 1
          /\ \A p \in DOMAIN pc :
                (GivenCurrentKey(p) /\ loc[p].fid = fid) =>
                   /\ pc[p] = "rot_read" => disk[loc[p].path].kind # "absent"
                   /\ pc[p] = "rot_crypto" =>
                         rotate_key(loc[p].ct, loc[p].cred, nextKey).ok
                   /\ pc[p] = "rot_begin" => MaxVersion(key_history, fid) >= 1
          /\ \A p \in DOMAIN pc :
                (Finished(p, "rotate", "Ok") /\ last[p].fid = fid) =>
                   LET n == MaxVersion(pre[p].kh, fid) IN
                   /\ MaxVersion(key_history, fid) = n + 1
                   /\ \A r \in HistoryOf(key_history, fid) :
                         /\ (r.superseded_at = NULL) <=> (r.version = n + 1)
                         /\ r.version = n + 1 => r.password_blob = last[p].key
                   /\ \A r \in HistoryOf(pre[p].kh, fid) :
                         \E r2 \in key_history : SameRow(r, r2)

C32_Witness ==
    \E p \in DOMAIN pc, fid \in FileIds :
       /\ CleanFile(fid) /\ Len(track[fid].notes) = 1
       /\ Finished(p, "rotate", "Ok") /\ last[p].fid = fid
       /\ MaxVersion(key_history, fid) = 2

----------------------------------------------------------------------------
(* Overlapping rotations of one file                                       *)

\* the calls of p and q were for the same file, started on the same
\* ciphertext, and both have returned Ok (so both decrypted that ciphertext)
OverlappedAndReturned(p, q) ==
    /\ p # q
    /\ Finished(p, "rotate", "Ok") /\ Finished(q, "rotate", "Ok")
    /\ last[p].fid = last[q].fid
    /\ pre[p].disk[PathOf(last[p].fid)] = pre[q].disk[PathOf(last[q].fid)]

\* C33: once two overlapping rotations of one file, both started on the same
\* original ciphertext, have returned (here: both with Ok), the key that
\* key_history marks current decrypts the ciphertext on disk and the key each
\* call returned is recorded in key_history
C33_OverlappingRotationsAgree ==
    \A p, q \in DOMAIN pc :
       OverlappedAndReturned(p, q) =>
          /\ CurrentKeyDecrypts(Snapshot, last[p].fid)
          /\ \E r \in HistoryOf(key_history, last[p].fid) :
                r.password_blob = last[p].key
          /\ \E r \in HistoryOf(key_history, last[q].fid) :
                r.password_blob = last[q].key

----------------------------------------------------------------------------
(* The metadata index after a rotation                                     *)

\* the same files row, whatever its rotated_at
SameEntry(f, g) ==
    /\ f.file_id = g.file_id /\ f.content_hash = g.content_hash
    /\ f.display_name = g.display_name /\ f.current_path = g.current_path
    /\ f.plaintext_size = g.plaintext_size /\ f.created_at = g.created_at

\* C34: a rotate_key_in_vault that returns Ok sets rotated_at of the files row
\* of its file_id to a timestamp, changes no other column of that row and no
\* other row, and neither inserts nor deletes a files row
C34_OnlyRotatedAtChanges ==
    \A p \in DOMAIN pc :
       Finished(p, "rotate", "Ok") =>
          /\ Cardinality(files) = Cardinality(pre[p].files)
          /\ \A f \in pre[p].files :
                IF f.file_id = last[p].fid
                THEN \E g \in files : SameEntry(f, g) /\ g.rotated_at # NULL
                ELSE f \in files
          /\ \A g \in files : \E f \in pre[p].files : SameEntry(f, g)

C34_Witness ==
    \E p \in DOMAIN pc :
       /\ Finished(p, "rotate", "Ok")
       /\ \E f \in pre[p].files, g \in files :
             /\ f.file_id = last[p].fid /\ f.rotated_at = NULL
             /\ SameEntry(f, g) /\ g.rotated_at # NULL
       /\ \E f \in files : f.file_id # last[p].fid /\ f.rotated_at = NULL

----------------------------------------------------------------------------
(* The functions on byte strings: aescrypt_version, blake3_hex and the      *)
(* file_id add_file derives                                                *)

MaxLen == 4

\* the bytes the inputs are made of: 'A', 'E', 'S', 3 and 'n'
Bytes == {65, 69, 83, 3, 110}

\* Option<u8>: Some(b) and None
Some(b) == <<b>>
None == <<>>

\* data.starts_with(b"AES") / data.get(..3) == Some(b"AES")
is_aescrypt_file(data) == Len(data) >= 3 /\ SubSeq(data, 1, 3) = <<65, 69, 83>>

\* aescrypt_version of src/file_ops.rs and src/core/file.rs
aescrypt_version(data) ==
    IF is_aescrypt_file(data) /\ Len(data) > 3 THEN Some(data[4]) ELSE None

\* aescrypt_version of src/core.rs: data.get(3).copied()
core_aescrypt_version(data) ==
    IF Len(data) > 3 THEN Some(data[4]) ELSE None

RECURSIVE SumBytes(_)
SumBytes(data) == IF data = <<>> THEN 0 ELSE Head(data) + 31 * SumBytes(Tail(data))

\* the length of a BLAKE3 digest in bytes
OUT_LEN == 32

\* Hasher::new().update(data).finalize(): the digest is a function of the bytes
\* and of nothing else (a stand-in for BLAKE3 with the same type)
Hasher_finalize(data) ==
    [i \in 1..OUT_LEN |-> (SumBytes(data) * 7 + Len(data) * 131 + i * 13) % 256]

\* Hash::to_hex(): two lowercase digits per byte, high nibble first
Hash_to_hex(digest) ==
    LET digits == <<"0", "1", "2", "3", "4", "5", "6", "7",
                    "8", "9", "a", "b", "c", "d", "e", "f">> IN
    [i \in 1..(2 * Len(digest)) |->
        LET b == digest[(i + 1) \div 2] IN
        digits[(IF i % 2 = 1 THEN b \div 16 ELSE b % 16) + 1]]

\* blake3_hex(data) on the bytes themselves
blake3_hex_bytes(data) == Hash_to_hex(Hasher_finalize(data))

\* a file_id that also hashes the file name
add_file_id_HashesName(plaintext, name, dest, key) ==
    blake3_hex_bytes(plaintext \o name)

\* let file_id = blake3_hex(&plaintext); of add_file, called with the file of
\* that name, the destination path and the generated key
add_file_id(plaintext, name, dest, key) == blake3_hex_bytes(plaintext)

FileNames == {<<110>>, <<65, 110>>}
Destinations == {"d1", "d2"}

InitBytes ==
    /\ VaultIdle
    /\ StreamIdle
    /\ c_in \in [data : UNION {[1..n -> Bytes] : n \in 0..MaxLen},
                 name : FileNames, dest : Destinations, key : 1..MaxKeys]
    /\ c_op = "none"
    /\ c_res = <<>>
    /\ c_fs = <<>>

CallAescryptVersion ==
    /\ c_op = "none"
    /\ c_op' = "aescrypt_version"
    /\ c_res' = aescrypt_version(c_in.data)
    /\ UNCHANGED <<c_in, c_fs>>
    /\ UNCHANGED <<vaultVars, streamVars>>

CallCoreAescryptVersion ==
    /\ c_op = "none"
    /\ c_op' = "core_aescrypt_version"
    /\ c_res' = core_aescrypt_version(c_in.data)
    /\ UNCHANGED <<c_in, c_fs>>
    /\ UNCHANGED <<vaultVars, streamVars>>

CallAddFileId ==
    /\ c_op = "none"
    /\ c_op' = "add_file_id"
    /\ c_res' = add_file_id(c_in.data, c_in.name, c_in.dest, c_in.key)
    /\ UNCHANGED <<c_in, c_fs>>
    /\ UNCHANGED <<vaultVars, streamVars>>

NextBytes ==
    \/ CallAescryptVersion
    \/ CallCoreAescryptVersion
    \/ CallAddFileId

SpecBytes == InitBytes /\ [][NextBytes]_vars

\* C35: aescrypt_version returns Some(b) exactly when the input begins with
\* 'AES' and has a fourth byte b, and None for every other input
C35_VersionOnlyAfterMagic ==
    c_op \in {"aescrypt_version", "core_aescrypt_version"} =>
       IF Len(c_in.data) >= 4 /\ c_in.data[1] = 65 /\ c_in.data[2] = 69
             /\ c_in.data[3] = 83
       THEN c_res = Some(c_in.data[4])
       ELSE c_res = None

\* C36: the file_id of add_file is a function of the plaintext bytes alone (the
\* same for every file name, destination and generated key) and is 64
\* lowercase hexadecimal characters
C36_FileIdFromPlaintextOnly ==
    c_op = "add_file_id" =>
       /\ \A name \in FileNames, dest \in Destinations, key \in 1..MaxKeys :
             add_file_id(c_in.data, name, dest, key) = c_res
       /\ Len(c_res) = 64
       /\ \A i \in 1..Len(c_res) :
             c_res[i] \in {"0", "1", "2", "3", "4", "5", "6", "7", "8", "9",
                           "a", "b", "c", "d", "e", "f"}

C36_Witness ==
    /\ c_op = "add_file_id"
    /\ c_in.data = <<65, 69, 83, 3>>
    /\ c_in.name = <<65, 110>> /\ c_in.dest = "d2" /\ c_in.key = MaxKeys
    /\ c_res = add_file_id(<<65, 69, 83, 3>>, <<110>>, "d1", 1)

====
